---- MODULE Spec2Model ----
(***************************************************************************)
(* SEARCH/REPLACE patch engine of the Pastr extension.                     *)
(*                                                                         *)
(* Text is a sequence of one-character strings; the empty sequence is the  *)
(* empty string.  The filesystem is a function from resolved paths         *)
(* (sequences of path segments) to directory and file entries.             *)
(***************************************************************************)
EXTENDS Integers, Sequences, FiniteSets, TLC

(***************************************************************************)
(* String primitives of the JavaScript runtime used by the code.           *)
(***************************************************************************)

\* The backtick character (U+0060), which a string literal cannot hold
Backtick == "BACKTICK"

\* \s of JavaScript regular expressions and String.prototype.trim
IsWs(c) == c \in {" ", "\t", "\n", "\r"}

RECURSIVE TrimStart(_)
TrimStart(s) == IF s # <<>> /\ IsWs(Head(s)) THEN TrimStart(Tail(s)) ELSE s

RECURSIVE TrimEnd(_)
TrimEnd(s) ==
    IF s # <<>> /\ IsWs(s[Len(s)]) THEN TrimEnd(SubSeq(s, 1, Len(s) - 1)) ELSE s

\* String.prototype.trim
Trim(s) == TrimEnd(TrimStart(s))

\* String.prototype.startsWith
StartsWith(s, p) == Len(p) <= Len(s) /\ SubSeq(s, 1, Len(p)) = p

OccursAt(s, p, i) == i + Len(p) - 1 <= Len(s) /\ SubSeq(s, i, i + Len(p) - 1) = p

\* String.prototype.indexOf, 1-based; 0 when p does not occur in s
IndexOf(s, p) ==
    IF \E i \in 1..(Len(s) + 1) : OccursAt(s, p, i)
    THEN CHOOSE i \in 1..(Len(s) + 1) :
            OccursAt(s, p, i) /\ \A j \in 1..(i - 1) : ~OccursAt(s, p, j)
    ELSE 0

\* String.prototype.includes
Includes(s, p) == IndexOf(s, p) # 0

\* String.prototype.split with a one-character separator
RECURSIVE Split(_, _)
Split(s, c) ==
    LET k == IndexOf(s, <<c>>)
    IN  IF k = 0 THEN <<s>>
        ELSE <<SubSeq(s, 1, k - 1)>> \o Split(SubSeq(s, k + 1, Len(s)), c)

\* Array.prototype.join with a one-character separator
RECURSIVE Join(_, _)
Join(ls, c) ==
    IF Len(ls) = 0 THEN <<>>
    ELSE IF Len(ls) = 1 THEN ls[1]
    ELSE ls[1] \o <<c>> \o Join(Tail(ls), c)

\* Array.prototype.slice(from, to) with 0-based bounds, as the code calls it
Slice(ls, from, to) == SubSeq(ls, from + 1, to)

\* s.replace(/\s+/g, ' '): every run of whitespace becomes one space
RECURSIVE CollapseWs(_)
CollapseWs(s) ==
    IF s = <<>> THEN <<>>
    ELSE IF IsWs(Head(s)) THEN <<" ">> \o CollapseWs(TrimStart(s))
    ELSE <<Head(s)>> \o CollapseWs(Tail(s))

\* s.replace(/\s+/g, ' ').trim()
NormalizeWs(s) == Trim(CollapseWs(s))

\* The replacement-text expansion String.prototype.replace applies to its
\* second argument: $$ is "$", $& the match, $ and a backtick the text before
\* the match, $ and an apostrophe the text after it; any other "$" stands for
\* itself (the pattern is a string, so no capture group exists).
RECURSIVE GetSubstitution(_, _, _, _)
GetSubstitution(r, matched, pre, post) ==
    IF r = <<>> THEN <<>>
    ELSE IF Head(r) = "$" /\ Len(r) >= 2 /\ r[2] \in {"$", "&", Backtick, "'"}
    THEN (CASE r[2] = "$" -> <<"$">>
            [] r[2] = "&" -> matched
            [] r[2] = Backtick -> pre
            [] r[2] = "'" -> post)
         \o GetSubstitution(SubSeq(r, 3, Len(r)), matched, pre, post)
    ELSE <<Head(r)>> \o GetSubstitution(Tail(r), matched, pre, post)

\* Text before / after the leftmost occurrence of p in s (p occurs in s)
Before(s, p) == SubSeq(s, 1, IndexOf(s, p) - 1)
After(s, p) == SubSeq(s, IndexOf(s, p) + Len(p), Len(s))

\* String.prototype.replace(p, r) with a string pattern: only the leftmost
\* occurrence is rewritten, by the expansion of r
StringReplace(s, p, r) ==
    IF IndexOf(s, p) = 0 THEN s
    ELSE Before(s, p) \o GetSubstitution(r, p, Before(s, p), After(s, p))
                      \o After(s, p)

(***************************************************************************)
(* parser.ts                                                               *)
(***************************************************************************)

SEARCH_MARKER == <<"<", "<", "<", "<", "<", "<", "<", " ", "S", "E", "A", "R", "C", "H">>
DIVIDER_MARKER == <<"=", "=", "=", "=", "=", "=", "=">>
REPLACE_MARKER == <<">", ">", ">", ">", ">", ">", ">", " ", "R", "E", "P", "L", "A", "C", "E">>
FENCE == <<Backtick, Backtick, Backtick>>
XML_OPEN == <<"<", "s", "e", "a", "r", "c", "h", "_", "r", "e", "p", "l", "a", "c", "e", "_", "b", "l", "o", "c", "k", "s", ">">>
XML_CLOSE == <<"<", "/", "s", "e", "a", "r", "c", "h", "_", "r", "e", "p", "l", "a", "c", "e", "_", "b", "l", "o", "c", "k", "s", ">">>

\* findMarkerIndex with 0-based indices; -1 when the marker is not found
RECURSIVE findMarkerIndex(_, _, _)
findMarkerIndex(lines, marker, startIndex) ==
    IF startIndex >= Len(lines) THEN -1
    ELSE IF Trim(lines[startIndex + 1]) = marker THEN startIndex
    ELSE findMarkerIndex(lines, marker, startIndex + 1)

\* extractBlockContent looking for every marker from the first line on
extractBlockContentFromTop(blockContent, language, filePath, blockIndex) ==
    LET lines == Split(blockContent, "\n")
        searchStartIndex == findMarkerIndex(lines, SEARCH_MARKER, 0)
        dividerIndex == findMarkerIndex(lines, DIVIDER_MARKER, 0)
        replaceEndIndex == findMarkerIndex(lines, REPLACE_MARKER, 0)
        searchContent == Join(Slice(lines, searchStartIndex + 1, dividerIndex), "\n")
        replaceContent == Join(Slice(lines, dividerIndex + 1, replaceEndIndex), "\n")
    IN  IF searchStartIndex = -1 \/ dividerIndex = -1 \/ replaceEndIndex = -1
        THEN <<>>
        ELSE << [language |-> language,
                 filePath |-> filePath,
                 searchContent |-> searchContent,
                 replaceContent |-> replaceContent,
                 isNewFile |-> (Trim(searchContent) = <<>>),
                 lineNumber |-> blockIndex] >>

\* extractBlockContent with isNewFile taken from the untrimmed search text
extractBlockContentUntrimmed(blockContent, language, filePath, blockIndex) ==
    LET lines == Split(blockContent, "\n")
        searchStartIndex == findMarkerIndex(lines, SEARCH_MARKER, 0)
        dividerIndex == findMarkerIndex(lines, DIVIDER_MARKER, searchStartIndex + 1)
        replaceEndIndex == findMarkerIndex(lines, REPLACE_MARKER, dividerIndex + 1)
        searchContent == Join(Slice(lines, searchStartIndex + 1, dividerIndex), "\n")
        replaceContent == Join(Slice(lines, dividerIndex + 1, replaceEndIndex), "\n")
    IN  IF searchStartIndex = -1 \/ dividerIndex = -1 \/ replaceEndIndex = -1
        THEN <<>>
        ELSE << [language |-> language,
                 filePath |-> filePath,
                 searchContent |-> searchContent,
                 replaceContent |-> replaceContent,
                 isNewFile |-> (searchContent = <<>>),
                 lineNumber |-> blockIndex] >>

\* extractBlockContent: the one-element sequence holding the block, or the
\* empty sequence where the code returns null
extractBlockContent(blockContent, language, filePath, blockIndex) ==
    LET lines == Split(blockContent, "\n")
        searchStartIndex == findMarkerIndex(lines, SEARCH_MARKER, 0)
        dividerIndex == findMarkerIndex(lines, DIVIDER_MARKER, searchStartIndex + 1)
        replaceEndIndex == findMarkerIndex(lines, REPLACE_MARKER, dividerIndex + 1)
        searchContent == Join(Slice(lines, searchStartIndex + 1, dividerIndex), "\n")
        replaceContent == Join(Slice(lines, dividerIndex + 1, replaceEndIndex), "\n")
    IN  IF searchStartIndex = -1 \/ dividerIndex = -1 \/ replaceEndIndex = -1
        THEN <<>>
        ELSE << [language |-> language,
                 filePath |-> filePath,
                 searchContent |-> searchContent,
                 replaceContent |-> replaceContent,
                 isNewFile |-> (Trim(searchContent) = <<>>),
                 lineNumber |-> blockIndex] >>

\* The backward scan on a fence opener (lines 68-77): the nearest non-blank
\* line before 0-based index i replaces the candidate path when it contains
\* ".", "/" or "\"; otherwise the candidate is kept.
RECURSIVE PathBefore(_, _, _)
PathBefore(lines, j, currentFilePath) ==
    IF j < 0 THEN currentFilePath
    ELSE LET prevLine == Trim(lines[j + 1])
         IN  IF prevLine # <<>>
             THEN IF Includes(prevLine, <<".">>) \/ Includes(prevLine, <<"/">>)
                     \/ Includes(prevLine, <<"\\">>)
                  THEN prevLine
                  ELSE currentFilePath
             ELSE PathBefore(lines, j - 1, currentFilePath)

\* The scanner state before the first line (lines 23-30); a null path is the
\* empty string, which the code treats alike (both are falsy)
ScanInit == [currentFilePath |-> <<>>, inFence |-> FALSE, fenceContentLines |-> <<>>,
             fenceLanguage |-> <<>>, blockIndex |-> 0, blocks |-> <<>>]

\* One iteration of the line loop (lines 33-81) on 0-based line i
ScanLine(st, lines, i) ==
    LET line == lines[i + 1]
    IN  IF StartsWith(line, FENCE)
        THEN IF st.inFence
             THEN LET firstLine == IF st.fenceContentLines = <<>> THEN <<>>
                                   ELSE Trim(st.fenceContentLines[1])
                      inside == firstLine # <<>> /\ ~StartsWith(firstLine, SEARCH_MARKER)
                      filePathForBlock == IF inside THEN firstLine ELSE st.currentFilePath
                      blockContent == IF inside
                                      THEN Join(Tail(st.fenceContentLines), "\n")
                                      ELSE Join(st.fenceContentLines, "\n")
                  IN  IF filePathForBlock # <<>>
                      THEN [st EXCEPT !.inFence = FALSE,
                                      !.blockIndex = @ + 1,
                                      !.blocks = @ \o extractBlockContent(blockContent,
                                                        st.fenceLanguage, filePathForBlock,
                                                        st.blockIndex + 1),
                                      !.fenceContentLines = <<>>]
                      ELSE [st EXCEPT !.inFence = FALSE, !.fenceContentLines = <<>>]
             ELSE [st EXCEPT !.inFence = TRUE,
                             !.fenceLanguage = Trim(SubSeq(line, 4, Len(line))),
                             !.currentFilePath = PathBefore(lines, i - 1, @)]
        ELSE IF st.inFence
        THEN [st EXCEPT !.fenceContentLines = Append(@, line)]
        ELSE st

RECURSIVE ScanFrom(_, _, _)
ScanFrom(st, lines, i) ==
    IF i >= Len(lines) THEN st ELSE ScanFrom(ScanLine(st, lines, i), lines, i + 1)

\* The region when the wrapper tags are not looked for
searchReplaceContentWhole(text) == text

\* The region the scanner reads (lines 15-21): the text between the first
\* start tag and the first end tag after it, or the whole input
searchReplaceContent(text) ==
    LET o == IndexOf(text, XML_OPEN)
        rest == SubSeq(text, o + Len(XML_OPEN), Len(text))
        c == IndexOf(rest, XML_CLOSE)
    IN  IF o # 0 /\ c # 0 THEN SubSeq(rest, 1, c - 1) ELSE text

\* parseSearchReplaceBlocks; an input is [isString, text], isString FALSE
\* standing for null, undefined and every other non-string value
parseSearchReplaceBlocks(content) ==
    IF ~content.isString \/ content.text = <<>> THEN <<>>
    ELSE ScanFrom(ScanInit, Split(searchReplaceContent(content.text), "\n"), 0).blocks

\* path.isAbsolute (POSIX)
isAbsolute(p) == p # <<>> /\ Head(p) = "/"

\* validateSearchReplaceBlock, without the language rule of lines 168-171
validateWithoutLanguageRule(block) ==
    (IF Trim(block.filePath) = <<>> THEN <<"File path is empty or missing">> ELSE <<>>)
    \o (IF Includes(block.filePath, <<".", ".">>) \/ isAbsolute(block.filePath)
        THEN <<"File path contains invalid characters or is absolute">> ELSE <<>>)
    \o (IF ~block.isNewFile /\ Trim(block.searchContent) = <<>>
        THEN <<"Search content is empty for existing file modification">> ELSE <<>>)

\* validateSearchReplaceBlock, without the path rule of lines 158-161
validateWithoutPathRule(block) ==
    (IF Trim(block.filePath) = <<>> THEN <<"File path is empty or missing">> ELSE <<>>)
    \o (IF ~block.isNewFile /\ Trim(block.searchContent) = <<>>
        THEN <<"Search content is empty for existing file modification">> ELSE <<>>)
    \o (IF Trim(block.language) = <<>>
        THEN <<"Programming language not specified in fenced block">> ELSE <<>>)

\* A validator that returns at the first rule it finds violated
validateFirstErrorOnly(block) ==
    IF Trim(block.filePath) = <<>> THEN <<"File path is empty or missing">>
    ELSE IF Includes(block.filePath, <<".", ".">>) \/ isAbsolute(block.filePath)
    THEN <<"File path contains invalid characters or is absolute">>
    ELSE IF ~block.isNewFile /\ Trim(block.searchContent) = <<>>
    THEN <<"Search content is empty for existing file modification">>
    ELSE IF Trim(block.language) = <<>>
    THEN <<"Programming language not specified in fenced block">>
    ELSE <<>>

\* validateSearchReplaceBlock: the errors list (valid is errors = << >>)
validateSearchReplaceBlock(block) ==
    (IF Trim(block.filePath) = <<>> THEN <<"File path is empty or missing">> ELSE <<>>)
    \o (IF Includes(block.filePath, <<".", ".">>) \/ isAbsolute(block.filePath)
        THEN <<"File path contains invalid characters or is absolute">> ELSE <<>>)
    \o (IF ~block.isNewFile /\ Trim(block.searchContent) = <<>>
        THEN <<"Search content is empty for existing file modification">> ELSE <<>>)
    \o (IF Trim(block.language) = <<>>
        THEN <<"Programming language not specified in fenced block">> ELSE <<>>)

(***************************************************************************)
(* The filesystem and the path functions of node:path and node:fs.         *)
(***************************************************************************)

\* The workspace root "/w", as the sequence of its segments
workspacePath == << <<"w">> >>

\* path.normalize on segments: "" and "." are dropped, ".." removes the
\* segment before it
RECURSIVE Normalize(_, _)
Normalize(acc, segs) ==
    IF segs = <<>> THEN acc
    ELSE IF Head(segs) = <<>> \/ Head(segs) = <<".">> THEN Normalize(acc, Tail(segs))
    ELSE IF Head(segs) = <<".", ".">>
    THEN Normalize(IF acc = <<>> THEN acc ELSE SubSeq(acc, 1, Len(acc) - 1), Tail(segs))
    ELSE Normalize(Append(acc, Head(segs)), Tail(segs))

\* path.join(base, filePath), base being resolved already
pathJoin(base, filePath) == Normalize(base, Split(filePath, "/"))

\* path.dirname of a resolved path
dirname(p) == IF p = <<>> THEN p ELSE SubSeq(p, 1, Len(p) - 1)

\* p lies inside the directory root (root itself excluded)
Inside(root, p) == Len(p) > Len(root) /\ SubSeq(p, 1, Len(root)) = root

Dir == [kind |-> "dir", content |-> <<>>, writable |-> TRUE]
File(content, writable) == [kind |-> "file", content |-> content, writable |-> writable]

\* fs.existsSync
existsSync(f, p) == p \in DOMAIN f

Prefixes(p) == { SubSeq(p, 1, k) : k \in 0..Len(p) }

\* fs.mkdirSync(dir, {recursive: true}): [fs, threw]
mkdirSync(f, d) ==
    IF \E q \in Prefixes(d) : q \in DOMAIN f /\ f[q].kind = "file"
    THEN [fs |-> f, threw |-> "ENOTDIR: not a directory"]
    ELSE [fs |-> [q \in DOMAIN f \cup Prefixes(d) |->
                    IF q \in DOMAIN f THEN f[q] ELSE Dir],
          threw |-> ""]

\* fs.writeFileSync(p, content): [fs, threw]
writeFileSync(f, p, content) ==
    IF dirname(p) \notin DOMAIN f THEN [fs |-> f, threw |-> "ENOENT: no such file or directory"]
    ELSE IF f[dirname(p)].kind # "dir" THEN [fs |-> f, threw |-> "ENOTDIR: not a directory"]
    ELSE IF p \in DOMAIN f /\ f[p].kind = "dir"
    THEN [fs |-> f, threw |-> "EISDIR: illegal operation on a directory"]
    ELSE IF p \in DOMAIN f /\ ~f[p].writable
    THEN [fs |-> f, threw |-> "EACCES: permission denied"]
    ELSE [fs |-> [q \in DOMAIN f \cup {p} |->
                    IF q = p THEN File(content, TRUE) ELSE f[q]],
          threw |-> ""]

\* fs.readFileSync(p, 'utf8') of an existing path: [content, threw]
readFileSync(f, p) ==
    IF f[p].kind = "dir"
    THEN [content |-> <<>>, threw |-> "EISDIR: illegal operation on a directory"]
    ELSE [content |-> f[p].content, threw |-> ""]

(***************************************************************************)
(* applicator.ts                                                           *)
(***************************************************************************)

\* createNewFile without the check of lines 158-161
createNewFileOverwriting(f, filePath, content) ==
    LET dir == dirname(filePath)
        made == IF ~existsSync(f, dir) THEN mkdirSync(f, dir) ELSE [fs |-> f, threw |-> ""]
    IN  IF made.threw # "" THEN made ELSE writeFileSync(made.fs, filePath, content)

\* createNewFile: [fs, threw]
createNewFile(f, filePath, content) ==
    LET dir == dirname(filePath)
        made == IF ~existsSync(f, dir) THEN mkdirSync(f, dir) ELSE [fs |-> f, threw |-> ""]
    IN  IF made.threw # "" THEN made
        ELSE IF existsSync(made.fs, filePath)
        THEN [fs |-> made.fs, threw |-> "File already exists"]
        ELSE writeFileSync(made.fs, filePath, content)

\* The ApplyResult of one block, and the filesystem it leaves
BlockResult(f, success, message, errs, warns) ==
    [fs |-> f, success |-> success, message |-> message, errors |-> errs, warnings |-> warns]

WhitespaceWarning ==
    "A similar block of text was found, but it differs by whitespace (spaces, tabs, or newlines). The SEARCH block must be an exact match."

\* The whitespace check without the normalization of lines 197-198
exactOnlyWarnings(currentContent, searchContent) ==
    IF Includes(currentContent, searchContent) THEN <<WhitespaceWarning>> ELSE <<>>

\* Lines 197-205: the warnings of a block whose search text was not found
whitespaceWarnings(currentContent, searchContent) ==
    LET currentTrimmed == NormalizeWs(currentContent)
        searchTrimmed == NormalizeWs(searchContent)
    IN  IF Includes(currentTrimmed, searchTrimmed) THEN <<WhitespaceWarning>> ELSE <<>>

\* findAndReplaceInFile that makes the directory of a missing file before
\* it reports the file as missing
findAndReplaceMakingDirectory(f, filePath, searchContent, replaceContent) ==
    IF ~existsSync(f, filePath)
    THEN BlockResult(mkdirSync(f, dirname(filePath)).fs, FALSE, "File not found",
                     <<"The specified file does not exist.">>, <<>>)
    ELSE
    LET rd == readFileSync(f, filePath)
        currentContent == rd.content
        newContent == StringReplace(currentContent, searchContent, replaceContent)
        wr == writeFileSync(f, filePath, newContent)
    IN  IF rd.threw # ""
        THEN BlockResult(f, FALSE, "Failed to modify file", <<rd.threw>>, <<>>)
        ELSE IF newContent = currentContent
        THEN BlockResult(f, FALSE, "Search content not found",
                 <<"The content in the SEARCH block did not exactly match any part of the file.">>,
                 whitespaceWarnings(currentContent, searchContent))
        ELSE IF wr.threw # ""
        THEN BlockResult(f, FALSE, "Failed to modify file", <<wr.threw>>, <<>>)
        ELSE BlockResult(wr.fs, TRUE, "Successfully modified file", <<>>, <<>>)

\* findAndReplaceInFile
findAndReplaceInFile(f, filePath, searchContent, replaceContent) ==
    IF ~existsSync(f, filePath)
    THEN BlockResult(f, FALSE, "File not found", <<"The specified file does not exist.">>, <<>>)
    ELSE
    LET rd == readFileSync(f, filePath)
        currentContent == rd.content
        newContent == StringReplace(currentContent, searchContent, replaceContent)
        wr == writeFileSync(f, filePath, newContent)
    IN  IF rd.threw # ""
        THEN BlockResult(f, FALSE, "Failed to modify file", <<rd.threw>>, <<>>)
        ELSE IF newContent = currentContent
        THEN BlockResult(f, FALSE, "Search content not found",
                 <<"The content in the SEARCH block did not exactly match any part of the file.">>,
                 whitespaceWarnings(currentContent, searchContent))
        ELSE IF wr.threw # ""
        THEN BlockResult(f, FALSE, "Failed to modify file", <<wr.threw>>, <<>>)
        ELSE BlockResult(wr.fs, TRUE, "Successfully modified file", <<>>, <<>>)

\* applySearchReplaceBlock when every block is taken as an edit of an
\* existing file
applySearchReplaceBlockAsEdit(f, block) ==
    findAndReplaceInFile(f, pathJoin(workspacePath, block.filePath),
                         block.searchContent, block.replaceContent)

\* applySearchReplaceBlock
applySearchReplaceBlock(f, block) ==
    LET fullPath == pathJoin(workspacePath, block.filePath)
        cr == createNewFile(f, fullPath, block.replaceContent)
    IN  IF block.isNewFile
        THEN IF cr.threw # ""
             THEN BlockResult(cr.fs, FALSE, "Failed to apply block", <<cr.threw>>, <<>>)
             ELSE BlockResult(cr.fs, TRUE, "Created new file", <<>>, <<>>)
        ELSE findAndReplaceInFile(f, fullPath, block.searchContent, block.replaceContent)

(***************************************************************************)
(* Inputs: the response text and the filesystem at the time of the call.   *)
(***************************************************************************)

\* The largest number of sections (fences or prose lines) of one response
MaxFences == 2

P_A == <<"a", ".", "t">>
P_ALIAS == <<".", "/", "a", ".", "t">>
P_NEW == <<"n", "/", "b", ".", "t">>
P_UP == <<".", ".", "/", "e", ".", "t">>
P_ABS == <<"/", "a", ".", "t">>
TS == <<"t", "s">>
T_aXb == <<"a", "X", "b">>
T_aXb_aXb == <<"a", "X", "b", " ", "a", "X", "b">>
T_aXb_tab_aXb == <<"a", "X", "b", "\t", "a", "X", "b">>
T_X == <<"X">>
T_Y == <<"Y">>
T_match == <<"$", "&">>
T_note == <<"n", "o", "t", "e">>

\* One section of a response.  shape "outside": the path line, then the
\* fence with the three markers; "inside": the path is the first line in
\* the fence; "nomarkers": a fence holding plain text; "nopath": a fence
\* after a line that is no path; "prose": a line of text.  search and
\* replace are the lines between the markers.
Form(shape, path, lang, search, replace) ==
    [shape |-> shape, path |-> path, lang |-> lang, search |-> search, replace |-> replace]

body(f) == <<SEARCH_MARKER>> \o f.search \o <<DIVIDER_MARKER>> \o f.replace
              \o <<REPLACE_MARKER>>

FormLines(f) ==
    CASE f.shape = "outside" -> <<f.path, FENCE \o f.lang>> \o body(f) \o <<FENCE, <<>> >>
      [] f.shape = "inside" -> <<FENCE \o f.lang, f.path>> \o body(f) \o <<FENCE, <<>> >>
      [] f.shape = "nomarkers" -> <<f.path, FENCE \o f.lang>> \o f.replace \o <<FENCE, <<>> >>
      [] f.shape = "nopath" -> <<T_note, FENCE \o f.lang>> \o body(f) \o <<FENCE, <<>> >>
      [] f.shape = "prose" -> <<T_note, <<>> >>

RECURSIVE AllLines(_)
AllLines(forms) ==
    IF forms = <<>> THEN <<>> ELSE FormLines(Head(forms)) \o AllLines(Tail(forms))

\* Edits of the file a.t: a plain edit, a replace text equal to the search
\* text, a replace text holding "$&", a search text that differs from the
\* file by a tab
EditBodies == { <<T_aXb, T_Y>>, <<T_X, T_X>>, <<T_X, T_match>>, <<T_aXb_tab_aXb, T_Y>> }

Forms ==
    { Form("outside", P_A, TS, <<b[1]>>, <<b[2]>>) : b \in EditBodies }
    \cup { Form("outside", p, TS, <<T_Y>>, <<T_X>>) : p \in {P_ALIAS, P_NEW} }
    \cup { Form("outside", P_A, TS, <<>>, <<T_Y>>),
           Form("inside", P_NEW, TS, << <<" ">> >>, <<T_Y, T_X>>),
           Form("outside", P_UP, TS, <<T_aXb>>, <<T_Y>>),
           Form("outside", P_ABS, TS, <<T_aXb>>, <<T_Y>>),
           Form("outside", P_A, <<>>, <<T_aXb>>, <<T_Y>>),
           Form("nomarkers", P_A, TS, <<>>, <<T_Y>>),
           Form("nopath", <<>>, TS, <<T_aXb>>, <<T_Y>>),
           Form("prose", <<>>, <<>>, <<>>, <<>>) }

\* Responses: a non-string value, and the texts of up to MaxFences sections
\* (the empty text for none)
Inputs ==
    { [isString |-> FALSE, text |-> <<>>] }
    \cup { [isString |-> TRUE, text |-> Join(AllLines(forms), "\n")] :
             forms \in UNION { [1..n -> Forms] : n \in 0..MaxFences } }

\* Filesystems: the root, the workspace directory and a file e.t beside the
\* workspace; in the workspace a.t is absent, a writable file or a read-only
\* file
InitialFs ==
    { [p \in { <<>>, workspacePath, pathJoin(workspacePath, P_UP) } \cup a |->
         IF p \in { <<>>, workspacePath } THEN Dir
         ELSE IF p \in a THEN File(T_aXb_aXb, w)
         ELSE File(T_aXb_aXb, TRUE)] :
      a \in { {}, { pathJoin(workspacePath, P_A) } },
      w \in BOOLEAN }

(***************************************************************************)
(* applySearchReplaceBlocks as a state machine: the call parses the text,  *)
(* runs one loop iteration per block and sets the final result.            *)
(***************************************************************************)

VARIABLES
    content,            \* the response text handed to the call
    fs,                 \* the filesystem
    fs0,                \* the filesystem when the call was made
    pc,                 \* "start", "loop" or "done"
    blocks,             \* what parseSearchReplaceBlocks returned
    next,               \* number of blocks the loop has finished
    successfulBlocks,
    processedFiles,
    result,             \* the ApplyResult under construction and returned
    applied             \* per finished block: blockResult.success, FALSE if skipped

vars == <<content, fs, fs0, pc, blocks, next, successfulBlocks, processedFiles, result,
          applied>>

\* The state of the other entry points of the engine, which are modelled
\* further down: a direct call of validateSearchReplaceBlock, a call of
\* GitDiffParser.applyDiff and a direct call of parseSearchReplaceBlocks.  A
\* call of applySearchReplaceBlocks leaves them as they are.
VARIABLES
    givenBlock,         \* the argument of validateSearchReplaceBlock
    validated,          \* what it returned, once it has returned
    diffContent,        \* the argument of applyDiff
    cleanedDiff,        \* what cleanDiffContent returned
    parsedDiff,         \* the files parseGitDiff returned
    operations,         \* the FileOperation records resolved so far
    committed,          \* number of operations the commit pass has gone through
    diffPc,             \* "idle", "start", "parse", "resolve", "commit", "done" or "thrown"
    diffResult,         \* the ApplyResult of applyDiff
    parseContent,       \* the argument of parseSearchReplaceBlocks
    scanLines,          \* the lines its loop runs over
    scan,               \* the loop's variables: path, fence, ordinal, blocks
    scanPos,            \* the loop's index i
    parsePc             \* "idle", "start", "scan" or "done"

validateVars == <<givenBlock, validated>>
diffVars == <<diffContent, cleanedDiff, parsedDiff, operations, committed, diffPc, diffResult>>
parseVars == <<parseContent, scanLines, scan, scanPos, parsePc>>
allVars == <<vars, validateVars, diffVars, parseVars>>

\* No call of validateSearchReplaceBlock is under way
ValidateIdle ==
    /\ givenBlock = [language |-> <<>>, filePath |-> <<>>, searchContent |-> <<>>,
                     replaceContent |-> <<>>, isNewFile |-> FALSE, lineNumber |-> 0]
    /\ validated = [returned |-> FALSE, valid |-> FALSE, errors |-> <<>>]

\* No call of applyDiff is under way
DiffIdle ==
    /\ diffContent = [isString |-> FALSE, text |-> <<>>]
    /\ cleanedDiff = <<>>
    /\ parsedDiff = <<>>
    /\ operations = <<>>
    /\ committed = 0
    /\ diffPc = "idle"
    /\ diffResult = [success |-> FALSE, message |-> "", filesProcessed |-> 0, errors |-> <<>>]

\* No call of parseSearchReplaceBlocks on its own is under way
ParseIdle ==
    /\ parseContent = [isString |-> FALSE, text |-> <<>>]
    /\ scanLines = <<>>
    /\ scan = ScanInit
    /\ scanPos = 0
    /\ parsePc = "idle"

\* An entry of errors or warnings with its "Block n (path): " label; the
\* unlabeled entry of an empty parse has block 0
Labeled(block, text) == [block |-> block.lineNumber, filePath |-> block.filePath, text |-> text]
Unlabeled(text) == [block |-> 0, filePath |-> <<>>, text |-> text]

Init ==
    /\ content \in Inputs
    /\ fs \in InitialFs
    /\ fs0 = fs
    /\ pc = "start"
    /\ blocks = <<>>
    /\ next = 0
    /\ successfulBlocks = 0
    /\ processedFiles = {}
    /\ result = [success |-> FALSE, message |-> "", filesProcessed |-> 0,
                 blocksProcessed |-> 0, errors |-> <<>>, warnings |-> <<>>]
    /\ applied = <<>>
    /\ ValidateIdle
    /\ DiffIdle
    /\ ParseIdle

\* The early return without the error of line 28
NoBlocksResultSilent(r) ==
    [r EXCEPT !.message = "No valid SEARCH/REPLACE blocks found in the response."]

\* Lines 26-30: the result returned when no block was parsed
NoBlocksResult(r) ==
    [r EXCEPT !.message = "No valid SEARCH/REPLACE blocks found in the response.",
              !.errors = Append(@, Unlabeled(
                  <<"Could not find any fenced code blocks with the SEARCH/REPLACE format.">>))]

\* Lines 24-30: parse, and return at once when no block was found
Parse ==
    /\ pc = "start"
    /\ blocks' = parseSearchReplaceBlocks(content)
    /\ IF Len(blocks') = 0
       THEN /\ result' = NoBlocksResult(result)
            /\ pc' = "done"
       ELSE /\ result' = result
            /\ pc' = "loop"
    /\ UNCHANGED <<content, fs, fs0, next, successfulBlocks, processedFiles, applied>>
    /\ UNCHANGED <<validateVars, diffVars, parseVars>>

\* An invalid block that ends the loop (a break in place of continue)
breakAfterInvalid(n, total) == total

\* Line 42: after an invalid block the loop continues with the next block
\* (n blocks finished so far, total blocks parsed)
afterInvalid(n, total) == n + 1

LabelAll(block, texts) == [k \in 1..Len(texts) |-> Labeled(block, <<texts[k]>>)]

\* Lines 36-67: one iteration of the loop over the blocks
ProcessBlock ==
    /\ pc = "loop"
    /\ next < Len(blocks)
    /\ LET block == blocks[next + 1]
           validation == validateSearchReplaceBlock(block)
           blockResult == applySearchReplaceBlock(fs, block)
       IN  IF validation # <<>>
           THEN /\ result' = [result EXCEPT !.errors =
                                 Append(@, Labeled(block, <<"Invalid format">> \o validation))]
                /\ UNCHANGED <<fs, successfulBlocks, processedFiles>>
                /\ next' = afterInvalid(next, Len(blocks))
                /\ applied' = Append(applied, FALSE)
           ELSE /\ fs' = blockResult.fs
                /\ next' = next + 1
                /\ applied' = Append(applied, blockResult.success)
                /\ IF blockResult.success
                   THEN /\ successfulBlocks' = successfulBlocks + 1
                        /\ processedFiles' = processedFiles \cup {block.filePath}
                        /\ result' = [result EXCEPT !.warnings =
                                         @ \o LabelAll(block, blockResult.warnings)]
                   ELSE /\ result' = [result EXCEPT
                               !.errors = Append(@, Labeled(block,
                                   IF blockResult.errors # <<>> THEN blockResult.errors
                                   ELSE <<blockResult.message>>)),
                               !.warnings = @ \o LabelAll(block, blockResult.warnings)]
                        /\ UNCHANGED <<successfulBlocks, processedFiles>>
    /\ UNCHANGED <<content, fs0, pc, blocks>>
    /\ UNCHANGED <<validateVars, diffVars, parseVars>>

\* A final result that counts blocks where it should count distinct paths
FinalResultCountingBlocks(r, successful, files) ==
    [r EXCEPT
       !.blocksProcessed = successful,
       !.filesProcessed = successful,
       !.success = (successful > 0),
       !.message = IF successful > 0
                   THEN IF Len(r.errors) = 0 THEN "Successfully applied"
                        ELSE "Applied, but errors occurred"
                   ELSE IF Len(r.errors) > 0
                        THEN "Failed to apply any blocks. Errors occurred."
                        ELSE "Failed to apply any blocks. No valid blocks were processed."]

\* Lines 70-86: the final result, from the loop's counters
FinalResult(r, successful, files) ==
    [r EXCEPT
       !.blocksProcessed = successful,
       !.filesProcessed = Cardinality(files),
       !.success = (successful > 0),
       !.message = IF successful > 0
                   THEN IF Len(r.errors) = 0 THEN "Successfully applied"
                        ELSE "Applied, but errors occurred"
                   ELSE IF Len(r.errors) > 0
                        THEN "Failed to apply any blocks. Errors occurred."
                        ELSE "Failed to apply any blocks. No valid blocks were processed."]

\* Lines 69-94: the loop is over, the result is returned
Finish ==
    /\ pc = "loop"
    /\ next >= Len(blocks)
    /\ result' = FinalResult(result, successfulBlocks, processedFiles)
    /\ pc' = "done"
    /\ UNCHANGED <<content, fs, fs0, blocks, next, successfulBlocks, processedFiles, applied>>
    /\ UNCHANGED <<validateVars, diffVars, parseVars>>

Next == Parse \/ ProcessBlock \/ Finish

Spec == Init /\ [][Next]_vars

TypeOK ==
    /\ pc \in {"start", "loop", "done"}
    /\ next \in 0..Len(blocks)
    /\ successfulBlocks \in 0..next
    /\ Len(applied) <= next

(***************************************************************************)
(* validateSearchReplaceBlock called on its own, as the tests call it:     *)
(* the argument is any SearchReplaceBlock, also one the parser would not   *)
(* build.                                                                  *)
(***************************************************************************)

P_BLANK == <<" ">>
P_DOTS == <<"a", ".", ".", "t">>

\* The blocks handed to the validator: every field drawn on its own
ValidateBlocks ==
    { [language |-> l, filePath |-> p, searchContent |-> s, replaceContent |-> T_Y,
       isNewFile |-> n, lineNumber |-> 1] :
      l \in { <<>>, <<" ">>, TS },
      p \in { <<>>, P_BLANK, P_A, P_UP, P_ABS, P_DOTS },
      s \in { <<>>, <<" ", "\n">>, T_X },
      n \in BOOLEAN }

InitValidate ==
    /\ givenBlock \in ValidateBlocks
    /\ validated = [returned |-> FALSE, valid |-> FALSE, errors |-> <<>>]
    /\ content = [isString |-> FALSE, text |-> <<>>]
    /\ fs = [p \in { <<>>, workspacePath } |-> Dir]
    /\ fs0 = fs
    /\ pc = "idle"
    /\ blocks = <<>>
    /\ next = 0
    /\ successfulBlocks = 0
    /\ processedFiles = {}
    /\ result = [success |-> FALSE, message |-> "", filesProcessed |-> 0,
                 blocksProcessed |-> 0, errors |-> <<>>, warnings |-> <<>>]
    /\ applied = <<>>
    /\ DiffIdle
    /\ ParseIdle

\* The call: the return value of lines 173-176
Validate ==
    /\ ~validated.returned
    /\ validated' = [returned |-> TRUE,
                      valid |-> (Len(validateSearchReplaceBlock(givenBlock)) = 0),
                      errors |-> validateSearchReplaceBlock(givenBlock)]
    /\ UNCHANGED <<givenBlock, vars, diffVars, parseVars>>

NextValidate == Validate

SpecValidate == InitValidate /\ [][NextValidate]_allVars

(***************************************************************************)
(* gitDiffParser.ts: cleanDiffContent, and the parse-git-diff package that *)
(* applyDiff calls on the cleaned text.  The package reads the text line   *)
(* by line: a "diff" line opens a file, extended header lines follow, then *)
(* the two file markers and the chunks; the first line that fits none of   *)
(* these ends the list of files.                                           *)
(***************************************************************************)

DIFF_GIT == <<"d", "i", "f", "f", " ", "-", "-", "g", "i", "t">>
DIFF_WORD == <<"d", "i", "f", "f">>
OLD_MARKER == <<"-", "-", "-", " ">>
NEW_MARKER == <<"+", "+", "+", " ">>
CHUNK_MARKER == <<"@", "@", " ", "-">>
HDR_DELETED == <<"d", "e", "l", "e", "t", "e", "d", " ", "f", "i", "l", "e", " ", "m", "o", "d", "e">>
HDR_NEW_FILE == <<"n", "e", "w", " ", "f", "i", "l", "e", " ", "m", "o", "d", "e">>
HDR_RENAME_FROM == <<"r", "e", "n", "a", "m", "e", " ", "f", "r", "o", "m", " ">>
HDR_RENAME_TO == <<"r", "e", "n", "a", "m", "e", " ", "t", "o", " ">>
HDR_OTHER ==
    { <<"i", "n", "d", "e", "x">>, <<"o", "l", "d", " ", "m", "o", "d", "e">>, <<"n", "e", "w", " ", "m", "o", "d", "e">>, <<"c", "o", "p", "y", " ", "f", "r", "o", "m">>, <<"c", "o", "p", "y", " ", "t", "o">>,
      <<"s", "i", "m", "i", "l", "a", "r", "i", "t", "y", " ", "i", "n", "d", "e", "x">>, <<"d", "i", "s", "s", "i", "m", "i", "l", "a", "r", "i", "t", "y", " ", "i", "n", "d", "e", "x">> }

\* Array.prototype.findIndex(line => line.startsWith(prefix)), 0-based from
\* index i; -1 when no line starts with the prefix
RECURSIVE findIndexStartsWith(_, _, _)
findIndexStartsWith(lines, prefix, i) ==
    IF i >= Len(lines) THEN -1
    ELSE IF StartsWith(lines[i + 1], prefix) THEN i
    ELSE findIndexStartsWith(lines, prefix, i + 1)

\* A cleanup that keeps the text in front of the first diff line
cleanKeepingPreamble(d) ==
    IF ~d.isString \/ d.text = <<>> THEN <<>>
    ELSE IF findIndexStartsWith(Split(d.text, "\n"), DIFF_GIT, 0) = -1 THEN <<>>
    ELSE Trim(d.text)

\* cleanDiffContent; an argument is [isString, text] as for the other entry
\* point, and the empty text stands for the '' the code returns
cleanDiffContent(d) ==
    IF ~d.isString \/ d.text = <<>> THEN <<>>
    ELSE LET lines == Split(d.text, "\n")
             diffStartIndex == findIndexStartsWith(lines, DIFF_GIT, 0)
         IN  IF diffStartIndex = -1 THEN <<>>
             ELSE Trim(Join(Slice(lines, diffStartIndex, Len(lines)), "\n"))

\* parseInt(digits, 10) of a run of decimal digits
DigitValue(c) ==
    CASE c = "0" -> 0 [] c = "1" -> 1 [] c = "2" -> 2 [] c = "3" -> 3 [] c = "4" -> 4
      [] c = "5" -> 5 [] c = "6" -> 6 [] c = "7" -> 7 [] c = "8" -> 8 [] c = "9" -> 9
IsDigit(c) == c \in {"0", "1", "2", "3", "4", "5", "6", "7", "8", "9"}

RECURSIVE ParseInt(_, _)
ParseInt(s, acc) ==
    IF s = <<>> \/ ~IsDigit(Head(s)) THEN acc
    ELSE ParseInt(Tail(s), 10 * acc + DigitValue(Head(s)))

\* The chunk header line (two at-signs, the range in the original file, the
\* range in the new file, two at-signs): is the line one,
\* and the start of its range in the original file
isChunkHeader(line) ==
    /\ StartsWith(line, CHUNK_MARKER)
    /\ Len(line) > Len(CHUNK_MARKER)
    /\ IsDigit(line[Len(CHUNK_MARKER) + 1])
    /\ Includes(line, <<" ", "+">>)
    /\ Includes(SubSeq(line, 3, Len(line)), <<" ", "@", "@">>)
fromFileRangeStart(line) == ParseInt(SubSeq(line, Len(CHUNK_MARKER) + 1, Len(line)), 0)

\* The type of a change line, from its first character
LineType(c) ==
    CASE c = "+" -> "AddedLine"
      [] c = "-" -> "DeletedLine"
      [] c = " " -> "UnchangedLine"
      [] c = "\\" -> "MessageLine"
isChangeLine(line) == line # <<>> /\ Head(line) \in {"+", "-", " ", "\\"}

\* The changes of a chunk from line i (1-based) on: [changes, next]
RECURSIVE parseChanges(_, _)
parseChanges(lines, i) ==
    IF i > Len(lines) \/ ~isChangeLine(lines[i]) THEN [changes |-> <<>>, next |-> i]
    ELSE LET type == LineType(Head(lines[i]))
             change == [type |-> type,
                        content |-> IF type = "MessageLine" THEN Trim(Tail(lines[i]))
                                    ELSE Tail(lines[i])]
             rest == parseChanges(lines, i + 1)
         IN  [changes |-> <<change>> \o rest.changes, next |-> rest.next]

\* The chunks from line i on: [chunks, next]
RECURSIVE parseChunks(_, _)
parseChunks(lines, i) ==
    IF i > Len(lines) \/ ~isChunkHeader(lines[i]) THEN [chunks |-> <<>>, next |-> i]
    ELSE LET parsed == parseChanges(lines, i + 1)
             chunk == [type |-> "Chunk",
                       fromFileRange |-> [start |-> fromFileRangeStart(lines[i])],
                       changes |-> parsed.changes]
             rest == parseChunks(lines, parsed.next)
         IN  [chunks |-> <<chunk>> \o rest.chunks, next |-> rest.next]

\* The extended header lines from line i on, folded into what they say
RECURSIVE parseExtendedHeaders(_, _, _)
parseExtendedHeaders(lines, i, h) ==
    IF i > Len(lines) THEN [h EXCEPT !.next = i]
    ELSE LET line == lines[i]
         IN  IF StartsWith(line, HDR_DELETED)
             THEN parseExtendedHeaders(lines, i + 1, [h EXCEPT !.isDeleted = TRUE])
             ELSE IF StartsWith(line, HDR_NEW_FILE)
             THEN parseExtendedHeaders(lines, i + 1, [h EXCEPT !.isNew = TRUE])
             ELSE IF StartsWith(line, HDR_RENAME_FROM)
             THEN parseExtendedHeaders(lines, i + 1,
                      [h EXCEPT !.isRename = TRUE,
                                !.pathBefore = SubSeq(line, Len(HDR_RENAME_FROM) + 1, Len(line))])
             ELSE IF StartsWith(line, HDR_RENAME_TO)
             THEN parseExtendedHeaders(lines, i + 1,
                      [h EXCEPT !.isRename = TRUE,
                                !.pathAfter = SubSeq(line, Len(HDR_RENAME_TO) + 1, Len(line))])
             ELSE IF \E o \in HDR_OTHER : StartsWith(line, o)
             THEN parseExtendedHeaders(lines, i + 1, h)
             ELSE [h EXCEPT !.next = i]

\* A marker path without its "a/" or "b/" prefix
stripPrefix(p, letter) ==
    IF StartsWith(p, <<letter, "/">>) THEN SubSeq(p, 3, Len(p)) ELSE p

\* The "--- " and "+++ " lines at line i: [found, deleted, added, next]; a
\* "--- " line is consumed also when no "+++ " line follows it
parseChangeMarkers(lines, i) ==
    LET hasOld == i <= Len(lines) /\ StartsWith(lines[i], OLD_MARKER)
        j == IF hasOld THEN i + 1 ELSE i
        hasNew == j <= Len(lines) /\ StartsWith(lines[j], NEW_MARKER)
        deleted == IF hasOld THEN stripPrefix(SubSeq(lines[i], Len(OLD_MARKER) + 1, Len(lines[i])), "a")
                   ELSE <<>>
        added == IF hasNew THEN stripPrefix(SubSeq(lines[j], Len(NEW_MARKER) + 1, Len(lines[j])), "b")
                 ELSE <<>>
    IN  [found |-> deleted # <<>> /\ added # <<>>,
         deleted |-> deleted, added |-> added,
         next |-> IF hasNew THEN j + 1 ELSE j]

\* The two paths of the line "diff --git a/<from> b/<to>"
parseComparisonInputLine(line) ==
    LET words == Split(line, " ")
    IN  IF Len(words) >= 4
        THEN [from |-> stripPrefix(words[3], "a"), to |-> stripPrefix(words[4], "b")]
        ELSE [from |-> <<>>, to |-> <<>>]

\* The file that opens at line i: [file, next], file being a one-element
\* sequence, or empty where the package returns undefined
parseFileChange(lines, i) ==
    IF ~StartsWith(lines[i], DIFF_WORD) THEN [file |-> <<>>, next |-> i]
    ELSE LET cmp == parseComparisonInputLine(lines[i])
             h == parseExtendedHeaders(lines, i + 1,
                      [isDeleted |-> FALSE, isNew |-> FALSE, isRename |-> FALSE,
                       pathBefore |-> <<>>, pathAfter |-> <<>>, next |-> i + 1])
             markers == parseChangeMarkers(lines, h.next)
             cs == parseChunks(lines, markers.next)
             File1(type, p) == << [type |-> type, path |-> p, pathBefore |-> <<>>,
                                   pathAfter |-> <<>>, chunks |-> cs.chunks] >>
         IN  [next |-> cs.next,
              file |->
                IF h.isDeleted
                THEN File1("DeletedFile", IF markers.found THEN markers.deleted ELSE cmp.from)
                ELSE IF h.isNew
                THEN File1("AddedFile", IF markers.found THEN markers.added ELSE cmp.to)
                ELSE IF h.isRename
                THEN << [type |-> "RenamedFile", path |-> <<>>, pathBefore |-> h.pathBefore,
                         pathAfter |-> h.pathAfter, chunks |-> cs.chunks] >>
                ELSE IF markers.found
                THEN File1("ChangedFile", markers.added)
                ELSE <<>>]

\* The files from line i on; the list ends at the first line that opens none
RECURSIVE parseFileChanges(_, _)
parseFileChanges(lines, i) ==
    IF i > Len(lines) THEN <<>>
    ELSE LET f == parseFileChange(lines, i)
         IN  IF f.file = <<>> THEN <<>>
             ELSE f.file \o parseFileChanges(lines, f.next)

\* parseGitDiff(text).files
parseGitDiff(text) == parseFileChanges(Split(text, "\n"), 1)

(***************************************************************************)
(* gitDiffParser.ts: the content a file has after its chunks.              *)
(***************************************************************************)

Min(a, b) == IF a < b THEN a ELSE b
Max(a, b) == IF a > b THEN a ELSE b

\* Lines 299-313: one change of a chunk, on the walk's state
\* [resultLines, originalIndex]
applyChange(st, change) ==
    CASE change.type = "UnchangedLine" ->
            [resultLines |-> Append(st.resultLines, change.content),
             originalIndex |-> st.originalIndex + 1]
      [] change.type = "AddedLine" ->
            [st EXCEPT !.resultLines = Append(@, change.content)]
      [] change.type = "DeletedLine" ->
            [st EXCEPT !.originalIndex = @ + 1]
      [] OTHER -> st

\* Lines 298-314: the changes of a chunk in order
RECURSIVE applyChanges(_, _)
applyChanges(st, changes) ==
    IF changes = <<>> THEN st
    ELSE applyChanges(applyChange(st, Head(changes)), Tail(changes))

\* Lines 287-319: one chunk; the lines of the original in front of the
\* chunk are copied first, and a chunk of another type is skipped
applyChunk(st, chunk, originalLines) ==
    IF chunk.type = "Chunk"
    THEN LET fromStart == chunk.fromFileRange.start - 1
             upTo == Max(st.originalIndex, Min(fromStart, Len(originalLines)))
         IN  applyChanges(
                 [resultLines |-> st.resultLines
                                  \o SubSeq(originalLines, st.originalIndex + 1, upTo),
                  originalIndex |-> upTo],
                 chunk.changes)
    ELSE st

RECURSIVE applyChunks(_, _, _)
applyChunks(st, chunks, originalLines) ==
    IF chunks = <<>> THEN st
    ELSE applyChunks(applyChunk(st, Head(chunks), originalLines), Tail(chunks), originalLines)

\* buildFileContentFromChunks
buildFileContentFromChunks(chunks, originalContent) ==
    IF Len(chunks) = 0 THEN originalContent
    ELSE LET originalLines == IF originalContent # <<>> THEN Split(originalContent, "\n")
                              ELSE <<>>
             st == applyChunks([resultLines |-> <<>>, originalIndex |-> 0],
                               chunks, originalLines)
         IN  Join(st.resultLines
                  \o SubSeq(originalLines, st.originalIndex + 1, Len(originalLines)),
                  "\n")

(***************************************************************************)
(* gitDiffParser.ts: one FileOperation per file of the diff, and the pass  *)
(* that applies the operations.                                            *)
(***************************************************************************)

\* fs.unlinkSync(p): [fs, threw]
unlinkSync(f, p) ==
    IF p \notin DOMAIN f THEN [fs |-> f, threw |-> "ENOENT: no such file or directory"]
    ELSE IF f[p].kind = "dir"
    THEN [fs |-> f, threw |-> "EISDIR: illegal operation on a directory"]
    ELSE [fs |-> [q \in DOMAIN f \ {p} |-> f[q]], threw |-> ""]

\* p is q or lies below q
AtOrBelow(q, p) == Len(p) >= Len(q) /\ SubSeq(p, 1, Len(q)) = q

\* fs.renameSync(oldPath, newPath): [fs, threw]; a directory moves with all
\* it holds, and a file at newPath is replaced
renameSync(f, oldPath, newPath) ==
    IF oldPath \notin DOMAIN f \/ dirname(newPath) \notin DOMAIN f
    THEN [fs |-> f, threw |-> "ENOENT: no such file or directory"]
    ELSE IF f[dirname(newPath)].kind # "dir"
    THEN [fs |-> f, threw |-> "ENOTDIR: not a directory"]
    ELSE IF oldPath = newPath THEN [fs |-> f, threw |-> ""]
    ELSE IF f[oldPath].kind = "dir" /\ AtOrBelow(oldPath, newPath)
    THEN [fs |-> f, threw |-> "EINVAL: invalid argument"]
    ELSE IF newPath \in DOMAIN f /\ f[newPath].kind = "dir" /\ f[oldPath].kind = "file"
    THEN [fs |-> f, threw |-> "EISDIR: illegal operation on a directory"]
    ELSE IF newPath \in DOMAIN f /\ f[newPath].kind = "file" /\ f[oldPath].kind = "dir"
    THEN [fs |-> f, threw |-> "ENOTDIR: not a directory"]
    ELSE IF newPath \in DOMAIN f /\ \E q \in DOMAIN f : Inside(newPath, q)
    THEN [fs |-> f, threw |-> "ENOTEMPTY: directory not empty"]
    ELSE LET moved == { q \in DOMAIN f : AtOrBelow(oldPath, q) }
             to(q) == newPath \o SubSeq(q, Len(oldPath) + 1, Len(q))
             kept == (DOMAIN f \ moved) \ {newPath}
         IN  [fs |-> [q \in kept \cup { to(m) : m \in moved } |->
                        IF q \in kept THEN f[q]
                        ELSE f[CHOOSE m \in moved : to(m) = q]],
              threw |-> ""]

\* A FileOperation; error "" is no error, and hasContent tells a content
\* that is set from one that is undefined
Operation(type, p, pathBefore) ==
    [type |-> type, path |-> p, pathBefore |-> pathBefore, content |-> <<>>,
     hasContent |-> FALSE, error |-> ""]
Failed(op, error) == [op EXCEPT !.error = error]
WithContent(op, text) == [op EXCEPT !.content = text, !.hasContent = TRUE]

\* Lines 161-165 and 226-230: the directory of fullPath is made if it is
\* missing: [fs, threw]
ensureDirectory(f, fullPath) ==
    IF ~existsSync(f, dirname(fullPath)) THEN mkdirSync(f, dirname(fullPath))
    ELSE [fs |-> f, threw |-> ""]

\* handleAddedFile: [op, fs]
handleAddedFile(f, file) ==
    LET operation == Operation("create", file.path, <<>>)
        fullPath == pathJoin(workspacePath, file.path)
        made == ensureDirectory(f, fullPath)
    IN  IF existsSync(f, fullPath)
        THEN [op |-> Failed(operation, "File already exists"), fs |-> f]
        ELSE IF made.threw # ""
        THEN [op |-> Failed(operation, made.threw), fs |-> made.fs]
        ELSE [op |-> WithContent(operation, buildFileContentFromChunks(file.chunks, <<>>)),
              fs |-> made.fs]

\* handleDeletedFile: [op, fs]
handleDeletedFile(f, file) ==
    LET operation == Operation("delete", file.path, <<>>)
    IN  IF ~existsSync(f, pathJoin(workspacePath, file.path))
        THEN [op |-> Failed(operation, "File does not exist"), fs |-> f]
        ELSE [op |-> operation, fs |-> f]

\* handleRenamedFile: [op, fs]
handleRenamedFile(f, file) ==
    LET operation == Operation("rename", file.pathAfter, file.pathBefore)
        oldPath == pathJoin(workspacePath, file.pathBefore)
        newPath == pathJoin(workspacePath, file.pathAfter)
        made == ensureDirectory(f, newPath)
        rd == readFileSync(made.fs, oldPath)
    IN  IF ~existsSync(f, oldPath)
        THEN [op |-> Failed(operation, "Source file does not exist"), fs |-> f]
        ELSE IF existsSync(f, newPath)
        THEN [op |-> Failed(operation, "Destination file already exists"), fs |-> f]
        ELSE IF made.threw # ""
        THEN [op |-> Failed(operation, made.threw), fs |-> made.fs]
        ELSE IF Len(file.chunks) = 0
        THEN [op |-> operation, fs |-> made.fs]
        ELSE IF rd.threw # ""
        THEN [op |-> Failed(operation, rd.threw), fs |-> made.fs]
        ELSE [op |-> WithContent(operation,
                         buildFileContentFromChunks(file.chunks, rd.content)),
              fs |-> made.fs]

\* handleChangedFile: [op, fs]
handleChangedFile(f, file) ==
    LET operation == Operation("modify", file.path, <<>>)
        fullPath == pathJoin(workspacePath, file.path)
        rd == readFileSync(f, fullPath)
    IN  IF ~existsSync(f, fullPath)
        THEN [op |-> Failed(operation, "File does not exist"), fs |-> f]
        ELSE IF rd.threw # ""
        THEN [op |-> Failed(operation, rd.threw), fs |-> f]
        ELSE [op |-> WithContent(operation,
                         buildFileContentFromChunks(file.chunks, rd.content)),
              fs |-> f]

\* processFile: [op, fs]
processFile(f, file) ==
    CASE file.type = "AddedFile" -> handleAddedFile(f, file)
      [] file.type = "DeletedFile" -> handleDeletedFile(f, file)
      [] file.type = "RenamedFile" -> handleRenamedFile(f, file)
      [] file.type = "ChangedFile" -> handleChangedFile(f, file)
      [] OTHER -> [op |-> Failed(Operation("modify", <<>>, <<>>), "Unsupported file type"),
                   fs |-> f]

\* Lines 335-364: one iteration of the loop of applyOperations: [fs, threw]
applyOperation(f, operation) ==
    LET fullPath == pathJoin(workspacePath, operation.path)
        oldPath == pathJoin(workspacePath, operation.pathBefore)
        wr == writeFileSync(f, fullPath, operation.content)
    IN  IF operation.error # "" THEN [fs |-> f, threw |-> ""]
        ELSE IF operation.type \in {"create", "modify"} THEN wr
        ELSE IF operation.type = "delete" THEN unlinkSync(f, fullPath)
        ELSE IF operation.hasContent
        THEN IF wr.threw # "" THEN wr ELSE unlinkSync(wr.fs, oldPath)
        ELSE renameSync(f, oldPath, fullPath)

(***************************************************************************)
(* Inputs of applyDiff: the diff text and the filesystem at the time of    *)
(* the call.  The workspace holds the directory d and, as the case may be, *)
(* the files a.t (four lines) and b.t.                                     *)
(***************************************************************************)

\* The largest number of file entries of one diff
MaxEntries == 2

P_B == <<"b", ".", "t">>
P_D == <<"d">>
T_pqrs == <<"p", "\n", "q", "\n", "r", "\n", "s">>
T_old == <<"o", "l", "d">>

\* New file a.t with two lines
D_ADD_A ==
    << <<"d", "i", "f", "f", " ", "-", "-", "g", "i", "t", " ", "a", "/", "a", ".", "t", " ", "b", "/", "a", ".", "t">>,
       <<"n", "e", "w", " ", "f", "i", "l", "e", " ", "m", "o", "d", "e", " ", "1", "0", "0", "6", "4", "4">>,
       <<"i", "n", "d", "e", "x", " ", "0", "0", "0", "0", "0", "0", "0", ".", ".", "1", "2", "3", "4", "5", "6", "7">>,
       <<"-", "-", "-", " ", "/", "d", "e", "v", "/", "n", "u", "l", "l">>,
       <<"+", "+", "+", " ", "b", "/", "a", ".", "t">>,
       <<"@", "@", " ", "-", "0", ",", "0", " ", "+", "1", ",", "2", " ", "@", "@">>,
       <<"+", "X">>,
       <<"+", "Y">> >>

\* New file n/b.t in a directory that does not exist yet
D_ADD_NB ==
    << <<"d", "i", "f", "f", " ", "-", "-", "g", "i", "t", " ", "a", "/", "n", "/", "b", ".", "t", " ", "b", "/", "n", "/", "b", ".", "t">>,
       <<"n", "e", "w", " ", "f", "i", "l", "e", " ", "m", "o", "d", "e", " ", "1", "0", "0", "6", "4", "4">>,
       <<"-", "-", "-", " ", "/", "d", "e", "v", "/", "n", "u", "l", "l">>,
       <<"+", "+", "+", " ", "b", "/", "n", "/", "b", ".", "t">>,
       <<"@", "@", " ", "-", "0", ",", "0", " ", "+", "1", " ", "@", "@">>,
       <<"+", "X">> >>

\* Deletion of a.t
D_DEL_A ==
    << <<"d", "i", "f", "f", " ", "-", "-", "g", "i", "t", " ", "a", "/", "a", ".", "t", " ", "b", "/", "a", ".", "t">>,
       <<"d", "e", "l", "e", "t", "e", "d", " ", "f", "i", "l", "e", " ", "m", "o", "d", "e", " ", "1", "0", "0", "6", "4", "4">>,
       <<"-", "-", "-", " ", "a", "/", "a", ".", "t">>,
       <<"+", "+", "+", " ", "/", "d", "e", "v", "/", "n", "u", "l", "l">>,
       <<"@", "@", " ", "-", "1", ",", "4", " ", "+", "0", ",", "0", " ", "@", "@">>,
       <<"-", "p">>,
       <<"-", "q">>,
       <<"-", "r">>,
       <<"-", "s">> >>

\* Rename of a.t to b.t without content changes
D_REN_AB ==
    << <<"d", "i", "f", "f", " ", "-", "-", "g", "i", "t", " ", "a", "/", "a", ".", "t", " ", "b", "/", "b", ".", "t">>,
       <<"s", "i", "m", "i", "l", "a", "r", "i", "t", "y", " ", "i", "n", "d", "e", "x", " ", "1", "0", "0", "%">>,
       <<"r", "e", "n", "a", "m", "e", " ", "f", "r", "o", "m", " ", "a", ".", "t">>,
       <<"r", "e", "n", "a", "m", "e", " ", "t", "o", " ", "b", ".", "t">> >>

\* Rename of a.t to n/b.t with a change of its first line
D_REN_MOD ==
    << <<"d", "i", "f", "f", " ", "-", "-", "g", "i", "t", " ", "a", "/", "a", ".", "t", " ", "b", "/", "n", "/", "b", ".", "t">>,
       <<"s", "i", "m", "i", "l", "a", "r", "i", "t", "y", " ", "i", "n", "d", "e", "x", " ", "5", "0", "%">>,
       <<"r", "e", "n", "a", "m", "e", " ", "f", "r", "o", "m", " ", "a", ".", "t">>,
       <<"r", "e", "n", "a", "m", "e", " ", "t", "o", " ", "n", "/", "b", ".", "t">>,
       <<"-", "-", "-", " ", "a", "/", "a", ".", "t">>,
       <<"+", "+", "+", " ", "b", "/", "n", "/", "b", ".", "t">>,
       <<"@", "@", " ", "-", "1", ",", "2", " ", "+", "1", ",", "2", " ", "@", "@">>,
       <<"-", "p">>,
       <<"+", "X">>,
       <<" ", "q">> >>

\* Rename of the directory d to n/b.t with a chunk
D_REN_DIR ==
    << <<"d", "i", "f", "f", " ", "-", "-", "g", "i", "t", " ", "a", "/", "d", " ", "b", "/", "n", "/", "b", ".", "t">>,
       <<"r", "e", "n", "a", "m", "e", " ", "f", "r", "o", "m", " ", "d">>,
       <<"r", "e", "n", "a", "m", "e", " ", "t", "o", " ", "n", "/", "b", ".", "t">>,
       <<"-", "-", "-", " ", "a", "/", "d">>,
       <<"+", "+", "+", " ", "b", "/", "n", "/", "b", ".", "t">>,
       <<"@", "@", " ", "-", "1", " ", "+", "1", " ", "@", "@">>,
       <<"-", "p">>,
       <<"+", "X">> >>

\* Change of a.t: one chunk in the middle of the file
D_CHG_ONE ==
    << <<"d", "i", "f", "f", " ", "-", "-", "g", "i", "t", " ", "a", "/", "a", ".", "t", " ", "b", "/", "a", ".", "t">>,
       <<"i", "n", "d", "e", "x", " ", "1", "2", "3", "4", "5", "6", "7", ".", ".", "a", "b", "c", "d", "e", "f", "g", " ", "1", "0", "0", "6", "4", "4">>,
       <<"-", "-", "-", " ", "a", "/", "a", ".", "t">>,
       <<"+", "+", "+", " ", "b", "/", "a", ".", "t">>,
       <<"@", "@", " ", "-", "2", ",", "2", " ", "+", "2", ",", "2", " ", "@", "@">>,
       <<" ", "q">>,
       <<"-", "r">>,
       <<"+", "Y">> >>

\* Change of a.t: two chunks, the last line without a newline
D_CHG_TWO ==
    << <<"d", "i", "f", "f", " ", "-", "-", "g", "i", "t", " ", "a", "/", "a", ".", "t", " ", "b", "/", "a", ".", "t">>,
       <<"-", "-", "-", " ", "a", "/", "a", ".", "t">>,
       <<"+", "+", "+", " ", "b", "/", "a", ".", "t">>,
       <<"@", "@", " ", "-", "1", " ", "+", "1", " ", "@", "@">>,
       <<"-", "p">>,
       <<"+", "X">>,
       <<"@", "@", " ", "-", "3", ",", "2", " ", "+", "3", ",", "3", " ", "@", "@">>,
       <<" ", "r">>,
       <<" ", "s">>,
       <<"+", "Y">>,
       <<"\\", " ", "N", "o", " ", "n", "e", "w", "l", "i", "n", "e", " ", "a", "t", " ", "e", "n", "d", " ", "o", "f", " ", "f", "i", "l", "e">> >>

\* Change of a.t: one chunk without context lines (git diff -U0) that adds a
\* line behind the second line
D_CHG_INS ==
    << <<"d", "i", "f", "f", " ", "-", "-", "g", "i", "t", " ", "a", "/", "a", ".", "t", " ", "b", "/", "a", ".", "t">>,
       <<"-", "-", "-", " ", "a", "/", "a", ".", "t">>,
       <<"+", "+", "+", " ", "b", "/", "a", ".", "t">>,
       <<"@", "@", " ", "-", "2", ",", "0", " ", "+", "3", " ", "@", "@">>,
       <<"+", "Y">> >>

\* Change of a.t written against another version of the file: the context
\* line of its chunk is Q where the file has q
D_CHG_CTX ==
    << <<"d", "i", "f", "f", " ", "-", "-", "g", "i", "t", " ", "a", "/", "a", ".", "t", " ", "b", "/", "a", ".", "t">>,
       <<"-", "-", "-", " ", "a", "/", "a", ".", "t">>,
       <<"+", "+", "+", " ", "b", "/", "a", ".", "t">>,
       <<"@", "@", " ", "-", "2", ",", "2", " ", "+", "2", ",", "2", " ", "@", "@">>,
       <<" ", "Q">>,
       <<"-", "r">>,
       <<"+", "Y">> >>

\* New file x.t beside the workspace: the path of the entry is ../x.t
D_ADD_UP ==
    << <<"d", "i", "f", "f", " ", "-", "-", "g", "i", "t", " ", "a", "/", ".", ".", "/", "x", ".", "t", " ", "b", "/", ".", ".", "/", "x", ".", "t">>,
       <<"n", "e", "w", " ", "f", "i", "l", "e", " ", "m", "o", "d", "e", " ", "1", "0", "0", "6", "4", "4">>,
       <<"-", "-", "-", " ", "/", "d", "e", "v", "/", "n", "u", "l", "l">>,
       <<"+", "+", "+", " ", "b", "/", ".", ".", "/", "x", ".", "t">>,
       <<"@", "@", " ", "-", "0", ",", "0", " ", "+", "1", " ", "@", "@">>,
       <<"+", "X">> >>

\* Text in front of a diff, as a chat response has it
PROSE_BEFORE ==
    << <<"H", "e", "r", "e", "'", "s", " ", "t", "h", "e", " ", "g", "i", "t", " ", "d", "i", "f", "f", ":">>,
       <<>>,
       <<Backtick, Backtick, Backtick, "d", "i", "f", "f">> >>

\* Text behind a diff
PROSE_AFTER ==
    << <<Backtick, Backtick, Backtick>>,
       <<>>,
       <<"D", "o", "n", "e", ".">> >>

DiffEntries ==
    { D_ADD_A, D_ADD_NB, D_DEL_A, D_REN_AB, D_REN_MOD, D_REN_DIR, D_CHG_ONE, D_CHG_TWO,
      D_CHG_INS, D_CHG_CTX }

RECURSIVE Concat(_)
Concat(ss) == IF ss = <<>> THEN <<>> ELSE Head(ss) \o Concat(Tail(ss))

\* The diffs of up to MaxEntries entries, as lists of lines
DiffLines == { Concat(es) : es \in UNION { [1..n -> DiffEntries] : n \in 0..MaxEntries } }

\* Arguments of applyDiff: a value that is no string, the diff whose entry
\* names a path outside the workspace, and every diff alone (the empty text
\* for a diff without entries) or wrapped in prose
DiffInputs ==
    { [isString |-> FALSE, text |-> <<>>],
      [isString |-> TRUE, text |-> Join(D_ADD_UP, "\n")] }
    \cup { [isString |-> TRUE, text |-> Join(ls, "\n")] : ls \in DiffLines }
    \cup { [isString |-> TRUE, text |-> Join(PROSE_BEFORE \o ls \o PROSE_AFTER, "\n")] :
             ls \in DiffLines }

\* Filesystems: the root, the workspace and its directory d; a.t is absent,
\* a writable file or a read-only file; b.t is present in one of them
DiffFs(a, w, b) ==
    [p \in { <<>>, workspacePath, pathJoin(workspacePath, P_D) } \cup a \cup b |->
        IF p \in a THEN File(T_pqrs, w)
        ELSE IF p \in b THEN File(T_old, TRUE)
        ELSE Dir]
DiffInitialFs ==
    { DiffFs({}, TRUE, {}),
      DiffFs({ pathJoin(workspacePath, P_A) }, TRUE, {}),
      DiffFs({ pathJoin(workspacePath, P_A) }, FALSE, {}),
      DiffFs({ pathJoin(workspacePath, P_A) }, TRUE, { pathJoin(workspacePath, P_B) }) }

(***************************************************************************)
(* applyDiff as a state machine: the call cleans the text, parses it,      *)
(* resolves one operation per file, applies the operations one by one and  *)
(* sets the final result.                                                  *)
(***************************************************************************)

\* No call of applySearchReplaceBlocks is under way
ApplicatorIdle ==
    /\ content = [isString |-> FALSE, text |-> <<>>]
    /\ pc = "idle"
    /\ blocks = <<>>
    /\ next = 0
    /\ successfulBlocks = 0
    /\ processedFiles = {}
    /\ result = [success |-> FALSE, message |-> "", filesProcessed |-> 0,
                 blocksProcessed |-> 0, errors |-> <<>>, warnings |-> <<>>]
    /\ applied = <<>>

InitDiff ==
    /\ diffContent \in DiffInputs
    /\ fs \in DiffInitialFs
    /\ fs0 = fs
    /\ cleanedDiff = <<>>
    /\ parsedDiff = <<>>
    /\ operations = <<>>
    /\ committed = 0
    /\ diffPc = "start"
    /\ diffResult = [success |-> FALSE, message |-> "", filesProcessed |-> 0, errors |-> <<>>]
    /\ ApplicatorIdle
    /\ ValidateIdle
    /\ ParseIdle

\* An entry of errors: the path it is labeled with (none for an error of
\* the whole call) and its text
DiffError(p, text) == [path |-> p, text |-> text]

\* Lines 41-46: clean the text, and return at once when nothing is left
Clean ==
    /\ diffPc = "start"
    /\ cleanedDiff' = cleanDiffContent(diffContent)
    /\ IF cleanedDiff' = <<>>
       THEN /\ diffResult' = [diffResult EXCEPT
                                !.message = "No valid git diff content found",
                                !.errors = Append(@, DiffError(<<>>, "Empty or invalid diff content"))]
            /\ diffPc' = "done"
       ELSE /\ diffResult' = diffResult
            /\ diffPc' = "parse"
    /\ UNCHANGED <<diffContent, parsedDiff, operations, committed, fs, fs0>>
    /\ UNCHANGED <<content, pc, blocks, next, successfulBlocks, processedFiles, result, applied>>
    /\ UNCHANGED <<validateVars, parseVars>>

\* Lines 49-54: parse the cleaned text, and return at once when it holds no
\* file
ParseDiff ==
    /\ diffPc = "parse"
    /\ parsedDiff' = parseGitDiff(cleanedDiff)
    /\ IF Len(parsedDiff') = 0
       THEN /\ diffResult' = [diffResult EXCEPT
                                !.message = "No files found in diff",
                                !.errors = Append(@, DiffError(<<>>, "Failed to parse diff or no files found"))]
            /\ diffPc' = "done"
       ELSE /\ diffResult' = diffResult
            /\ diffPc' = "resolve"
    /\ UNCHANGED <<diffContent, cleanedDiff, operations, committed, fs, fs0>>
    /\ UNCHANGED <<content, pc, blocks, next, successfulBlocks, processedFiles, result, applied>>
    /\ UNCHANGED <<validateVars, parseVars>>

\* Lines 62-66: the operation is counted, or its error is recorded
countOperation(r, operation) ==
    IF operation.error = "" THEN [r EXCEPT !.filesProcessed = @ + 1]
    ELSE [r EXCEPT !.errors = Append(@, DiffError(operation.path, operation.error))]

\* Lines 58-71: one iteration of the loop over the files; after the last
\* file the commit pass begins
ProcessFile ==
    /\ diffPc = "resolve"
    /\ Len(operations) < Len(parsedDiff)
    /\ LET resolved == processFile(fs, parsedDiff[Len(operations) + 1])
       IN  /\ operations' = Append(operations, resolved.op)
           /\ fs' = resolved.fs
           /\ diffResult' = countOperation(diffResult, resolved.op)
    /\ diffPc' = IF Len(operations') = Len(parsedDiff) THEN "commit" ELSE "resolve"
    /\ UNCHANGED <<diffContent, cleanedDiff, parsedDiff, committed, fs0>>
    /\ UNCHANGED <<content, pc, blocks, next, successfulBlocks, processedFiles, result, applied>>
    /\ UNCHANGED <<validateVars, parseVars>>

\* An error of the commit pass that leaves applyDiff as an exception
propagateApplyError(r, errorMsg) == [pc |-> "thrown", result |-> r]

\* Lines 84-88: an error of the commit pass is caught and reported
catchApplyError(r, errorMsg) ==
    [pc |-> "done",
     result |-> [r EXCEPT !.message = "Failed to apply diff",
                          !.errors = Append(@, DiffError(<<>>, errorMsg))]]

\* Lines 335-364: one iteration of the loop of applyOperations; an error
\* ends the call
ApplyOperation ==
    /\ diffPc = "commit"
    /\ committed < Len(operations)
    /\ LET done == applyOperation(fs, operations[committed + 1])
           caught == catchApplyError(diffResult, done.threw)
       IN  /\ fs' = done.fs
           /\ IF done.threw # ""
              THEN /\ diffPc' = caught.pc
                   /\ diffResult' = caught.result
                   /\ committed' = committed
              ELSE /\ committed' = committed + 1
                   /\ UNCHANGED <<diffPc, diffResult>>
    /\ UNCHANGED <<diffContent, cleanedDiff, parsedDiff, operations, fs0>>
    /\ UNCHANGED <<content, pc, blocks, next, successfulBlocks, processedFiles, result, applied>>
    /\ UNCHANGED <<validateVars, parseVars>>

\* Lines 76-82: the final result
finalDiffResult(r) ==
    IF Len(r.errors) = 0
    THEN [r EXCEPT !.success = TRUE, !.message = "Successfully applied changes"]
    ELSE [r EXCEPT !.success = (r.filesProcessed > 0),
                   !.message = "Applied changes with errors"]

\* Lines 74-90: the commit pass is over, the result is returned
FinishDiff ==
    /\ diffPc = "commit"
    /\ committed = Len(operations)
    /\ diffResult' = finalDiffResult(diffResult)
    /\ diffPc' = "done"
    /\ UNCHANGED <<diffContent, cleanedDiff, parsedDiff, operations, committed, fs, fs0>>
    /\ UNCHANGED <<content, pc, blocks, next, successfulBlocks, processedFiles, result, applied>>
    /\ UNCHANGED <<validateVars, parseVars>>

NextDiff == Clean \/ ParseDiff \/ ProcessFile \/ ApplyOperation \/ FinishDiff

SpecDiff == InitDiff /\ [][NextDiff]_allVars

(***************************************************************************)
(* The two public entry points side by side: a behaviour is one call of    *)
(* applySearchReplaceBlocks or one call of applyDiff.                      *)
(***************************************************************************)

InitEntry == Init \/ InitDiff

NextEntry ==
    \/ Parse \/ ProcessBlock \/ Finish
    \/ Clean \/ ParseDiff \/ ProcessFile \/ ApplyOperation \/ FinishDiff

SpecEntry == InitEntry /\ [][NextEntry]_allVars

(***************************************************************************)
(* parseSearchReplaceBlocks called on its own, as the parser tests call    *)
(* it, with the loop over the lines taken one iteration at a time.         *)
(***************************************************************************)

\* The largest number of sections (fences or prose lines) of one parsed text
MaxSections == 2

\* A fence under its path
S_OUT ==
    <<P_A, FENCE \o TS, SEARCH_MARKER, T_X, DIVIDER_MARKER, T_Y, REPLACE_MARKER, FENCE, <<>> >>

\* Sections of a text, as lists of lines
Sections ==
    { S_OUT,
      \* a fence under a path that holds another path as its first line,
      \* and blank lines around its texts
      <<P_A, FENCE \o TS, <<" ">> \o P_NEW \o <<" ">>, SEARCH_MARKER, <<>>, T_X,
        DIVIDER_MARKER, T_Y, <<>>, REPLACE_MARKER, FENCE, <<>> >>,
      \* a fence under a line that is no path
      <<T_note, FENCE \o TS, SEARCH_MARKER, T_X, DIVIDER_MARKER, T_Y, REPLACE_MARKER,
        FENCE, <<>> >>,
      \* a fence with nothing of its own above it, and a blank first line
      <<FENCE \o TS, <<>>, SEARCH_MARKER, T_X, DIVIDER_MARKER, T_Y, REPLACE_MARKER, FENCE,
        <<>> >>,
      \* fences under a path: without markers, without the end marker, with
      \* the markers in another order, with a line that only begins like the
      \* search marker
      <<P_A, FENCE \o TS, <<>>, T_X, FENCE, <<>> >>,
      <<P_A, FENCE \o TS, SEARCH_MARKER, T_X, DIVIDER_MARKER, T_Y, FENCE, <<>> >>,
      <<P_A, FENCE \o TS, <<>>, DIVIDER_MARKER, SEARCH_MARKER, T_X, REPLACE_MARKER, FENCE,
        <<>> >>,
      <<P_A, FENCE \o TS, SEARCH_MARKER \o <<"!">>, T_X, DIVIDER_MARKER, T_Y,
        REPLACE_MARKER, FENCE, <<>> >>,
      \* a fence with an indented search marker and each later marker twice
      <<P_A, FENCE \o TS, <<" ">> \o SEARCH_MARKER \o <<" ">>, T_X, DIVIDER_MARKER, T_Y,
        DIVIDER_MARKER, REPLACE_MARKER, T_X, REPLACE_MARKER, FENCE, <<>> >>,
      \* a fence under a path with a backslash, with an empty search text
      <<<<"a", "\\", "b">>, FENCE \o TS, SEARCH_MARKER, DIVIDER_MARKER, T_Y,
        REPLACE_MARKER, FENCE, <<>> >>,
      \* a fence under a path that is opened and never closed
      <<P_A, FENCE \o TS, SEARCH_MARKER, T_X, DIVIDER_MARKER, T_Y, REPLACE_MARKER>>,
      \* a line of prose
      <<T_note, <<>> >> }

\* A section between the wrapper tags with a fence in front of them and one
\* behind; with the start tag only; with the end tag in front of the start
\* tag; and followed by a second wrapped region
Wrapped(s) ==
    { S_OUT \o <<XML_OPEN>> \o s \o <<XML_CLOSE>> \o S_OUT,
      <<XML_OPEN>> \o s,
      <<XML_CLOSE>> \o s \o <<XML_OPEN>>,
      <<XML_OPEN>> \o s \o <<XML_CLOSE, XML_OPEN>> \o S_OUT \o <<XML_CLOSE>> }

\* Arguments of parseSearchReplaceBlocks: a value that is no string, the
\* texts of up to MaxSections sections, and the wrapped sections
ParseInputs ==
    { [isString |-> FALSE, text |-> <<>>] }
    \cup { [isString |-> TRUE, text |-> Join(Concat(ss), "\n")] :
             ss \in UNION { [1..n -> Sections] : n \in 0..MaxSections } }
    \cup { [isString |-> TRUE, text |-> Join(ls, "\n")] :
             ls \in UNION { Wrapped(s) : s \in Sections } }

InitParse ==
    /\ parseContent \in ParseInputs
    /\ scanLines = <<>>
    /\ scan = ScanInit
    /\ scanPos = 0
    /\ parsePc = "start"
    /\ fs = [p \in { <<>>, workspacePath } |-> Dir]
    /\ fs0 = fs
    /\ ApplicatorIdle
    /\ ValidateIdle
    /\ DiffIdle

\* Lines 11-24: return at once for no text; otherwise narrow the text to the
\* wrapped region and split it into lines
Narrow ==
    /\ parsePc = "start"
    /\ IF ~parseContent.isString \/ parseContent.text = <<>>
       THEN /\ parsePc' = "done"
            /\ scanLines' = scanLines
       ELSE /\ parsePc' = "scan"
            /\ scanLines' = Split(searchReplaceContent(parseContent.text), "\n")
    /\ UNCHANGED <<parseContent, scan, scanPos>>
    /\ UNCHANGED <<vars, validateVars, diffVars>>

\* Lines 32-82: one iteration of the loop over the lines
ScanStep ==
    /\ parsePc = "scan"
    /\ scanPos < Len(scanLines)
    /\ scan' = ScanLine(scan, scanLines, scanPos)
    /\ scanPos' = scanPos + 1
    /\ UNCHANGED <<parseContent, scanLines, parsePc>>
    /\ UNCHANGED <<vars, validateVars, diffVars>>

\* The return when a fence that is still open at the end of the text is
\* taken as closed there
ReturnBlocksFlushing ==
    /\ parsePc = "scan"
    /\ scanPos >= Len(scanLines)
    /\ parsePc' = "done"
    /\ scan' = IF scan.inFence /\ scan.currentFilePath # <<>>
               THEN [scan EXCEPT !.blocks = @ \o extractBlockContent(
                                                   Join(scan.fenceContentLines, "\n"),
                                                   scan.fenceLanguage, scan.currentFilePath,
                                                   scan.blockIndex + 1)]
               ELSE scan
    /\ UNCHANGED <<parseContent, scanLines, scanPos>>
    /\ UNCHANGED <<vars, validateVars, diffVars>>

\* Line 84: the loop is over, scan.blocks is returned
ReturnBlocks ==
    /\ parsePc = "scan"
    /\ scanPos >= Len(scanLines)
    /\ parsePc' = "done"
    /\ UNCHANGED <<parseContent, scanLines, scan, scanPos>>
    /\ UNCHANGED <<vars, validateVars, diffVars>>

NextParse == Narrow \/ ScanStep \/ ReturnBlocks

SpecParse == InitParse /\ [][NextParse]_allVars

(***************************************************************************)
(* Properties.                                                             *)
(***************************************************************************)

\* The loop is about to handle block Cur, whose target is Target(Cur)
Stepping == pc = "loop" /\ next < Len(blocks)
Cur == blocks[next + 1]
Target(b) == pathJoin(workspacePath, b.filePath)
IsValidBlock(b) == validateSearchReplaceBlock(b) = <<>>
IsFile(f, p) == p \in DOMAIN f /\ f[p].kind = "file"
IsWritableFile(f, p) == IsFile(f, p) /\ f[p].writable
LastError(r) == r.errors[Len(r.errors)]
ErrorTexts(r) == { r.errors[k].text : k \in 1..Len(r.errors) }
\* The step counted the block as successful / added one error labeled with it
CountedSuccess ==
    /\ successfulBlocks' = successfulBlocks + 1
    /\ result'.errors = result.errors
AddedError ==
    /\ successfulBlocks' = successfulBlocks
    /\ Len(result'.errors) = Len(result.errors) + 1
    /\ SubSeq(result'.errors, 1, Len(result.errors)) = result.errors
    /\ LastError(result').block = Cur.lineNumber
    /\ LastError(result').filePath = Cur.filePath

\* C1: an edit of an existing, writable file that contains the search text
\* rewrites the file to (text before the leftmost occurrence) +
\* replaceContent + (text after that occurrence).
C1_FirstOccurrenceLiteral ==
    [][ (/\ Stepping
         /\ IsValidBlock(Cur)
         /\ ~Cur.isNewFile
         /\ IsWritableFile(fs, Target(Cur))
         /\ Includes(fs[Target(Cur)].content, Cur.searchContent))
        => fs'[Target(Cur)].content =
              Before(fs[Target(Cur)].content, Cur.searchContent)
              \o Cur.replaceContent
              \o After(fs[Target(Cur)].content, Cur.searchContent) ]_vars

\* C2: two valid blocks of one input that target the same file are applied
\* in extraction order, the second against the content the first produced;
\* when both succeed blocksProcessed is 2 and filesProcessed is 1.
C2_SameFileInOrder ==
    (/\ pc = "done"
     /\ Len(blocks) = 2
     /\ IsValidBlock(blocks[1]) /\ IsValidBlock(blocks[2])
     /\ Target(blocks[1]) = Target(blocks[2]))
    => LET first == applySearchReplaceBlock(fs0, blocks[1])
           second == applySearchReplaceBlock(first.fs, blocks[2])
       IN  /\ fs = second.fs
           /\ applied = <<first.success, second.success>>
           /\ (first.success /\ second.success
                 => result.blocksProcessed = 2 /\ result.filesProcessed = 1)

\* The part of C2 about the order of application alone
C2_SecondSeesFirst ==
    (/\ pc = "done"
     /\ Len(blocks) = 2
     /\ IsValidBlock(blocks[1]) /\ IsValidBlock(blocks[2])
     /\ Target(blocks[1]) = Target(blocks[2]))
    => LET first == applySearchReplaceBlock(fs0, blocks[1])
           second == applySearchReplaceBlock(first.fs, blocks[2])
       IN  /\ fs = second.fs
           /\ applied = <<first.success, second.success>>
           /\ (first.success /\ second.success => result.blocksProcessed = 2)

\* C3: a valid block with blank search content creates its target, with the
\* missing directories above it and with exactly replaceContent, when nothing
\* exists at the path, and changes nothing else; when the path exists the
\* block fails with "File already exists" and the filesystem is unchanged.
C3_NewFileLaw ==
    [][ (Stepping /\ IsValidBlock(Cur) /\ Trim(Cur.searchContent) = <<>>)
        => IF Target(Cur) \in DOMAIN fs
           THEN /\ fs' = fs
                /\ AddedError
                /\ LastError(result').text = <<"File already exists">>
           ELSE /\ DOMAIN fs' = DOMAIN fs \cup Prefixes(Target(Cur))
                /\ fs'[Target(Cur)] = File(Cur.replaceContent, TRUE)
                /\ \A q \in Prefixes(dirname(Target(Cur))) : fs'[q].kind = "dir"
                /\ \A q \in DOMAIN fs : fs'[q] = fs[q]
                /\ CountedSuccess ]_vars

\* C3 witness: the call created a file in a directory that did not exist,
\* and another new-file block failed on an existing file
C3_Witness ==
    /\ pc = "done"
    /\ \E p \in DOMAIN fs \ DOMAIN fs0 :
          fs[p].kind = "file" /\ dirname(p) \notin DOMAIN fs0
    /\ <<"File already exists">> \in ErrorTexts(result)

\* C4: an edit whose replaceContent equals its searchContent, on a writable
\* file that contains the search text, is counted as successful, adds no
\* error and leaves the file as it was.
C4_NoOpReplaceSucceeds ==
    [][ (/\ Stepping
         /\ IsValidBlock(Cur)
         /\ ~Cur.isNewFile
         /\ Cur.searchContent = Cur.replaceContent
         /\ IsWritableFile(fs, Target(Cur))
         /\ Includes(fs[Target(Cur)].content, Cur.searchContent))
        => (CountedSuccess /\ fs' = fs) ]_vars

C6_PartialSuccess ==
    \A a, b \in 1..2 :
       (/\ pc = "done"
        /\ Len(blocks) = 2
        /\ a # b
        /\ IsValidBlock(blocks[a]) /\ IsValidBlock(blocks[b])
        /\ ~blocks[a].isNewFile /\ ~blocks[b].isNewFile
        /\ blocks[a].searchContent # blocks[a].replaceContent
        /\ IsWritableFile(fs0, Target(blocks[a]))
        /\ Includes(fs0[Target(blocks[a])].content, blocks[a].searchContent)
        /\ Target(blocks[b]) \notin DOMAIN fs0)
       => /\ result.success
          /\ result.blocksProcessed = 1
          /\ result.filesProcessed = 1
          /\ Len(result.errors) = 1
          /\ result.errors[1].filePath = blocks[b].filePath
          /\ fs[Target(blocks[a])] # fs0[Target(blocks[a])]
          /\ Target(blocks[b]) \notin DOMAIN fs

\* C7: every loop step finishes exactly one block, either counting it as
\* successful or adding exactly one error labeled with it, and the step
\* counts it as successful exactly when the block was valid and applied;
\* so when blocks were extracted, the call ends with all of them processed,
\* blocksProcessed + errors.length = number of blocks, and the errors in
\* extraction order.
C7_FailureIsolation ==
    /\ [][ Stepping =>
            /\ next' = next + 1
            /\ (CountedSuccess \/ AddedError)
            /\ Len(applied') = next'
            /\ (CountedSuccess <=> applied'[next']) ]_vars
    /\ []( (pc = "done" /\ Len(blocks) > 0) =>
            /\ next = Len(blocks)
            /\ result.blocksProcessed + Len(result.errors) = Len(blocks)
            /\ \A j, k \in 1..Len(result.errors) :
                  j < k => result.errors[j].block < result.errors[k].block )

\* C7 witness: the first block's write threw (the file is read-only) and
\* the second block was applied all the same
C7_Witness ==
    /\ pc = "done"
    /\ Len(blocks) = 2
    /\ applied = <<FALSE, TRUE>>
    /\ result.errors[1].text = <<"EACCES: permission denied">>

NoFenceLine(lines) == \A k \in 1..Len(lines) : ~StartsWith(lines[k], FENCE)
SomeMarkerMissing(lines) ==
    \E m \in {SEARCH_MARKER, DIVIDER_MARKER, REPLACE_MARKER} :
       \A k \in 1..Len(lines) : Trim(lines[k]) # m
NoPathAnywhere(lines) ==
    /\ \A k \in 1..Len(lines) :
          \A c \in {".", "/", "\\"} : ~Includes(lines[k], <<c>>)
    /\ \A k \in 1..(Len(lines) - 1) :
          StartsWith(lines[k], FENCE)
             => \/ Trim(lines[k + 1]) = <<>>
                \/ StartsWith(Trim(lines[k + 1]), SEARCH_MARKER)
NothingToExtract ==
    \/ ~content.isString
    \/ content.text = <<>>
    \/ LET lines == Split(content.text, "\n")
       IN  NoFenceLine(lines) \/ SomeMarkerMissing(lines) \/ NoPathAnywhere(lines)

\* C9: a non-string or empty input, text without a fence line, text that
\* lacks one of the three marker lines, and text in which no fence has a
\* path yield no block; and whenever no block was extracted the call returns
\* success = false, blocksProcessed = filesProcessed = 0 and the single
\* top-level error, with the filesystem as it was.
C9_NoBlocks ==
    /\ (pc = "loop" /\ next = 0) => ~NothingToExtract
    /\ (pc = "done" /\ blocks = <<>>)
          => /\ ~result.success
             /\ result.blocksProcessed = 0
             /\ result.filesProcessed = 0
             /\ Len(result.errors) = 1
             /\ result.errors[1].block = 0
             /\ fs = fs0

\* C9 witness: a text with a complete block in a fence that has no path
C9_Witness ==
    /\ pc = "done"
    /\ blocks = <<>>
    /\ content.isString
    /\ ~NoFenceLine(Split(content.text, "\n"))
    /\ ~SomeMarkerMissing(Split(content.text, "\n"))
    /\ Len(result.errors) = 1

\* A path with ".." in it or an absolute path
Unsafe(filePath) ==
    Includes(filePath, <<".", ".">>) \/ (filePath # <<>> /\ Head(filePath) = "/")

\* C10: a block whose filePath contains ".." or is absolute is rejected by
\* validation and its step changes nothing in the filesystem, whatever the
\* filesystem holds; every file or directory a step creates or modifies lies
\* inside the workspace root, and no step removes anything.
C10_PathSafety ==
    [][ Stepping =>
         /\ (Unsafe(Cur.filePath) =>
               /\ \E k \in 1..Len(validateSearchReplaceBlock(Cur)) :
                     validateSearchReplaceBlock(Cur)[k] =
                        "File path contains invalid characters or is absolute"
               /\ fs' = fs
               /\ AddedError)
         /\ DOMAIN fs \subseteq DOMAIN fs'
         /\ \A p \in DOMAIN fs' :
               (p \notin DOMAIN fs \/ fs'[p] # fs[p]) => Inside(workspacePath, p) ]_vars

\* C10 witness: a block whose path leads to an existing file outside the
\* workspace was rejected, and another block of the same input was applied
C10_Witness ==
    /\ pc = "done"
    /\ \E k \in 1..Len(result.errors) :
          /\ Unsafe(result.errors[k].filePath)
          /\ pathJoin(workspacePath, result.errors[k].filePath) \in DOMAIN fs0
          /\ ~Inside(workspacePath, pathJoin(workspacePath, result.errors[k].filePath))
    /\ fs # fs0

(***************************************************************************)
(* C12: validateSearchReplaceBlock reports every violated rule, one entry  *)
(* per rule: the path is missing or blank; the path is absolute or         *)
(* contains ".."; the block is not a new file and its search content is    *)
(* blank; the language is blank.  valid is true iff no rule is violated,   *)
(* and the call changes nothing but its return value.                      *)
(***************************************************************************)
IsBlank(s) == \A k \in 1..Len(s) : IsWs(s[k])
HasDotDot(s) == \E k \in 1..(Len(s) - 1) : s[k] = "." /\ s[k + 1] = "."
ViolatedRules(b) ==
    { r \in { "File path is empty or missing",
              "File path contains invalid characters or is absolute",
              "Search content is empty for existing file modification",
              "Programming language not specified in fenced block" } :
        \/ r = "File path is empty or missing" /\ IsBlank(b.filePath)
        \/ r = "File path contains invalid characters or is absolute"
           /\ (HasDotDot(b.filePath) \/ (Len(b.filePath) > 0 /\ b.filePath[1] = "/"))
        \/ r = "Search content is empty for existing file modification"
           /\ ~b.isNewFile /\ IsBlank(b.searchContent)
        \/ r = "Programming language not specified in fenced block"
           /\ IsBlank(b.language) }

C12_AllViolatedRules ==
    validated.returned =>
        /\ Len(validated.errors) = Cardinality(ViolatedRules(givenBlock))
        /\ { validated.errors[k] : k \in 1..Len(validated.errors) } = ViolatedRules(givenBlock)
        /\ validated.valid <=> (ViolatedRules(givenBlock) = {})
        /\ fs = fs0

\* A call that returned three errors at once
C12_Witness ==
    /\ validated.returned
    /\ Len(validated.errors) = 3
    /\ ~validated.valid

(***************************************************************************)
(* C13: every block parseSearchReplaceBlocks returned has isNewFile true   *)
(* exactly when its search content is empty after trimming, and the loop   *)
(* that validates and applies the blocks never changes a block.            *)
(***************************************************************************)
NewFileFlagMatches(b) == b.isNewFile <=> IsBlank(b.searchContent)

C13_NewFileFlag ==
    /\ [](\A k \in 1..Len(blocks) : NewFileFlagMatches(blocks[k]))
    /\ [][pc # "start" => blocks' = blocks]_vars

\* A finished call that created a file from a block whose search content is
\* a blank line, and applied a block whose search content is not blank
C13_Witness ==
    /\ pc = "done"
    /\ \E k \in 1..Len(blocks) :
          /\ blocks[k].isNewFile
          /\ blocks[k].searchContent # <<>>
          /\ applied[k]
    /\ \E k \in 1..Len(blocks) : ~blocks[k].isNewFile /\ applied[k]

(***************************************************************************)
(* C11: neither applySearchReplaceBlocks nor applyDiff throws.  Whatever   *)
(* the text and the filesystem, and also when reading or writing fails     *)
(* while the edits are applied, the call has a next step until it returns  *)
(* (each loop is within its bounds), and the result it returns has         *)
(* success, message and errors set.                                        *)
(***************************************************************************)
IsStructured(r) ==
    /\ r.success \in BOOLEAN
    /\ r.message # ""
    /\ DOMAIN r.errors = 1..Len(r.errors)

C11_NeverThrows ==
    /\ pc # "thrown"
    /\ diffPc # "thrown"
    /\ pc = "loop" => next <= Len(blocks)
    /\ diffPc = "resolve" => Len(operations) < Len(parsedDiff)
    /\ diffPc = "commit" => committed <= Len(operations)
    /\ pc = "done" => IsStructured(result)
    /\ diffPc = "done" => IsStructured(diffResult)

\* applyDiff returned after a write of the commit pass failed
C11_Witness ==
    /\ diffPc = "done"
    /\ diffResult.message = "Failed to apply diff"
    /\ \E k \in 1..Len(diffResult.errors) :
          diffResult.errors[k].text = "EACCES: permission denied"

(***************************************************************************)
(* C14: the reconstruction law of the diff pipeline.  When a Changed entry *)
(* has chunks in ascending order that fit the original file, the content   *)
(* resolved for it is the original with each chunk's old lines replaced by *)
(* its new lines: lines outside the chunks are kept, removed lines are     *)
(* dropped, added lines stand at the chunk's anchor, and a message line    *)
(* ("No newline at end of file") adds no line.  The anchor is the one of   *)
(* the unified-diff format: a chunk begins at its declared start line, and *)
(* a chunk without old lines stands behind that line.                      *)
(***************************************************************************)
IsOldLine(c) == c.type \in {"UnchangedLine", "DeletedLine"}
IsNewLine(c) == c.type \in {"UnchangedLine", "AddedLine"}
Contents(changes) == [k \in 1..Len(changes) |-> changes[k].content]
OldSide(chunk) == Contents(SelectSeq(chunk.changes, IsOldLine))
NewSide(chunk) == Contents(SelectSeq(chunk.changes, IsNewLine))
\* The number of lines of the original in front of the chunk
LinesBefore(chunk) ==
    IF OldSide(chunk) = <<>> THEN chunk.fromFileRange.start
    ELSE chunk.fromFileRange.start - 1
FileLines(text) == IF text = <<>> THEN <<>> ELSE Split(text, "\n")

\* The chunks are ascending and their old lines are the lines of orig they
\* name; from lines of orig lie in front of the first chunk's earliest start
RECURSIVE Consistent(_, _, _)
Consistent(orig, chunks, from) ==
    \/ chunks = <<>>
    \/ LET c == Head(chunks)
           first == LinesBefore(c) + 1
           last == LinesBefore(c) + Len(OldSide(c))
       IN  /\ LinesBefore(c) >= from
           /\ last <= Len(orig)
           /\ SubSeq(orig, first, last) = OldSide(c)
           /\ Consistent(orig, Tail(chunks), last)

RECURSIVE Patched(_, _, _)
Patched(orig, chunks, from) ==
    IF chunks = <<>> THEN SubSeq(orig, from + 1, Len(orig))
    ELSE LET c == Head(chunks)
         IN  SubSeq(orig, from + 1, LinesBefore(c)) \o NewSide(c)
             \o Patched(orig, Tail(chunks), LinesBefore(c) + Len(OldSide(c)))

\* The file the resolve loop handles next, its target, and the operation
\* the step appends
CurFile == parsedDiff[Len(operations) + 1]
DiffTarget(p) == pathJoin(workspacePath, p)
Resolving(type) == diffPc = "resolve" /\ CurFile.type = type
Resolved == operations'[Len(operations')]

ReconstructsWhen(applies(_)) ==
    ( /\ Resolving("ChangedFile")
      /\ Len(CurFile.chunks) > 0
      /\ IsFile(fs, DiffTarget(CurFile.path))
      /\ Consistent(FileLines(fs[DiffTarget(CurFile.path)].content), CurFile.chunks, 0)
      /\ applies(CurFile.chunks) )
    => /\ Resolved.error = ""
       /\ Resolved.content =
             Join(Patched(FileLines(fs[DiffTarget(CurFile.path)].content),
                          CurFile.chunks, 0), "\n")

AnyChunks(chunks) == TRUE
WithOldLines(chunks) == \A k \in 1..Len(chunks) : OldSide(chunks[k]) # <<>>

C14_ReconstructionLaw == [][ReconstructsWhen(AnyChunks)]_allVars

\* The law holds of every entry whose chunks all have context or removed
\* lines, the two-chunk entry with its message line included
C14_HoldsWithOldLines == [][ReconstructsWhen(WithOldLines)]_allVars

(***************************************************************************)
(* C15: applyDiff works in two phases.  While the entries are resolved     *)
(* into operations nothing in the filesystem is created, modified or       *)
(* removed, directories included; the commit pass leaves the filesystem    *)
(* alone on an operation that carries an error, so such an entry leaves    *)
(* the filesystem as it found it.                                          *)
(***************************************************************************)
Committing == diffPc = "commit" /\ committed < Len(operations)
CurOperation == operations[committed + 1]

C15_TwoPhase ==
    [][ /\ diffPc = "resolve" => fs' = fs
        /\ (Committing /\ CurOperation.error # "") => fs' = fs ]_allVars

(***************************************************************************)
(* C16: an Added entry of a diff.  If its destination exists, the entry    *)
(* fails with the error "File already exists" and neither resolving nor    *)
(* committing it changes the filesystem.  Otherwise, when applyDiff has    *)
(* returned, the destination is a file inside directories that exist, and  *)
(* its content is the added and context lines of the entry's chunks joined *)
(* by newlines, without a newline at the end.                              *)
(***************************************************************************)
RECURSIVE NewLinesOf(_)
NewLinesOf(chunks) ==
    IF chunks = <<>> THEN <<>> ELSE NewSide(Head(chunks)) \o NewLinesOf(Tail(chunks))

Returned == diffPc = "done" /\ Len(parsedDiff) > 0
Entries(type) == { k \in 1..Len(parsedDiff) : parsedDiff[k].type = type }
ParentsExist(f, p) == \A q \in Prefixes(dirname(p)) : q \in DOMAIN f /\ f[q].kind = "dir"

C16_AddedEntry ==
    /\ [][ /\ (Resolving("AddedFile") /\ existsSync(fs, DiffTarget(CurFile.path)))
              => /\ Resolved.error = "File already exists"
                 /\ diffResult'.errors =
                       Append(diffResult.errors, DiffError(CurFile.path, "File already exists"))
                 /\ fs' = fs
           /\ (Committing /\ CurOperation.type = "create" /\ CurOperation.error # "")
              => fs' = fs ]_allVars
    /\ [](Returned =>
            \A k \in Entries("AddedFile") :
               ~existsSync(fs0, DiffTarget(parsedDiff[k].path))
               => /\ IsFile(fs, DiffTarget(parsedDiff[k].path))
                  /\ fs[DiffTarget(parsedDiff[k].path)].content =
                        Join(NewLinesOf(parsedDiff[k].chunks), "\n")
                  /\ ParentsExist(fs, DiffTarget(parsedDiff[k].path)))


(***************************************************************************)
(* C17: a Deleted entry of a diff.  If its file does not exist, the entry  *)
(* fails with the error "File does not exist", is not counted, and no step *)
(* of it changes the filesystem.  Otherwise the entry counts once in       *)
(* filesProcessed and, when applyDiff has returned, the file is gone.      *)
(***************************************************************************)
DeletedSteps ==
    /\ (Resolving("DeletedFile") /\ ~existsSync(fs, DiffTarget(CurFile.path)))
       => /\ Resolved.error = "File does not exist"
          /\ diffResult'.errors =
                Append(diffResult.errors, DiffError(CurFile.path, "File does not exist"))
          /\ diffResult'.filesProcessed = diffResult.filesProcessed
          /\ fs' = fs
    /\ (Resolving("DeletedFile") /\ existsSync(fs, DiffTarget(CurFile.path)))
       => /\ Resolved.error = ""
          /\ diffResult'.filesProcessed = diffResult.filesProcessed + 1
    /\ (Committing /\ CurOperation.type = "delete" /\ CurOperation.error # "")
       => fs' = fs

\* C17: the steps of a Deleted entry behave as stated and, once applyDiff has
\* returned, every Deleted entry whose file existed has left no file behind.
C17_DeletedEntry ==
    /\ [][DeletedSteps]_allVars
    /\ [](Returned =>
            \A k \in Entries("DeletedFile") :
               existsSync(fs0, DiffTarget(parsedDiff[k].path))
               => /\ ~existsSync(fs, DiffTarget(parsedDiff[k].path))
                  /\ diffResult.filesProcessed >= 1)


(***************************************************************************)
(* C18: a Renamed entry of a diff.  If its source is missing or its        *)
(* destination exists, the entry fails and no step of it changes the       *)
(* filesystem.  Otherwise, when applyDiff has returned, the source path is *)
(* gone and the destination is a file holding the source's original        *)
(* content (pure rename) or the entry's hunks applied to it.               *)
(***************************************************************************)
RenamedSteps ==
    /\ (Resolving("RenamedFile") /\ ~existsSync(fs, DiffTarget(CurFile.pathBefore)))
       => /\ Resolved.error = "Source file does not exist"
          /\ diffResult'.filesProcessed = diffResult.filesProcessed
          /\ fs' = fs
    /\ ( /\ Resolving("RenamedFile")
         /\ existsSync(fs, DiffTarget(CurFile.pathBefore))
         /\ existsSync(fs, DiffTarget(CurFile.pathAfter)) )
       => /\ Resolved.error = "Destination file already exists"
          /\ diffResult'.filesProcessed = diffResult.filesProcessed
          /\ fs' = fs
    /\ (Committing /\ CurOperation.type = "rename" /\ CurOperation.error # "")
       => fs' = fs

RenamedContent(orig, chunks) ==
    IF chunks = <<>> THEN orig ELSE Join(Patched(FileLines(orig), chunks, 0), "\n")

Renamable(k) ==
    /\ IsFile(fs0, DiffTarget(parsedDiff[k].pathBefore))
    /\ ~existsSync(fs0, DiffTarget(parsedDiff[k].pathAfter))
    /\ Consistent(FileLines(fs0[DiffTarget(parsedDiff[k].pathBefore)].content),
                  parsedDiff[k].chunks, 0)

\* C18: the steps of a Renamed entry behave as stated and, once applyDiff has
\* returned, every Renamed entry with a source file and a free destination has
\* moved the file, with its hunks applied.
C18_RenamedEntry ==
    /\ [][RenamedSteps]_allVars
    /\ [](Returned =>
            \A k \in Entries("RenamedFile") :
               Renamable(k)
               => /\ ~existsSync(fs, DiffTarget(parsedDiff[k].pathBefore))
                  /\ IsFile(fs, DiffTarget(parsedDiff[k].pathAfter))
                  /\ fs[DiffTarget(parsedDiff[k].pathAfter)].content =
                        RenamedContent(fs0[DiffTarget(parsedDiff[k].pathBefore)].content,
                                       parsedDiff[k].chunks))


(***************************************************************************)
(* C19: the aggregate result of applyDiff over a diff with at least one    *)
(* entry.  Every entry counts once in filesProcessed or gives one error,   *)
(* success says that some entry was processed, a Changed entry whose       *)
(* target is missing carries the error "File does not exist", and every    *)
(* operation without an error has been committed.                          *)
(***************************************************************************)
C19_AggregateResult ==
    Returned =>
       /\ diffResult.filesProcessed + Len(diffResult.errors) = Len(parsedDiff)
       /\ diffResult.success <=> diffResult.filesProcessed > 0
       /\ \A k \in Entries("ChangedFile") :
             ~existsSync(fs0, DiffTarget(parsedDiff[k].path))
             => operations[k].error = "File does not exist"
       /\ committed = Len(operations)


(***************************************************************************)
(* C20: the tolerant cleanup of applyDiff.  When the argument holds a line *)
(* beginning with "diff --git", the text in front of the first such line   *)
(* is dropped, and the text that is parsed and applied is the one cleaning *)
(* the rest alone gives.  When the argument is no string, is empty or      *)
(* holds no such line, applyDiff returns at once: no success, nothing      *)
(* processed,                                                              *)
(* the message "No valid git diff content found", an error, and the        *)
(* filesystem as it was.                                                   *)
(***************************************************************************)
DiffLinesAt(lines) == { i \in 1..Len(lines) : StartsWith(lines[i], DIFF_GIT) }

NoDiffContent(d) ==
    \/ ~d.isString
    \/ d.text = <<>>
    \/ DiffLinesAt(Split(d.text, "\n")) = {}

FromFirstDiffLine(text) ==
    LET lines == Split(text, "\n")
        first == CHOOSE i \in DiffLinesAt(lines) : \A j \in DiffLinesAt(lines) : i <= j
    IN  Join(SubSeq(lines, first, Len(lines)), "\n")

GivenAlone == [isString |-> TRUE, text |-> FromFirstDiffLine(diffContent.text)]

\* C20: the step that cleans the argument either keeps exactly the text from
\* the first diff line on, as cleaning that text alone does, or ends the call
\* with the result of an invalid diff and an untouched filesystem.
C20_TolerantCleanup ==
    [][ diffPc = "start" =>
          IF NoDiffContent(diffContent)
          THEN /\ diffPc' = "done"
               /\ ~diffResult'.success
               /\ diffResult'.filesProcessed = 0
               /\ diffResult'.message = "No valid git diff content found"
               /\ Len(diffResult'.errors) >= 1
               /\ fs' = fs0
          ELSE /\ diffPc' = "parse"
               /\ cleanedDiff' = Trim(GivenAlone.text)
               /\ cleanedDiff' = cleanDiffContent(GivenAlone)
               /\ diffResult' = diffResult
               /\ fs' = fs0 ]_allVars

\* A diff wrapped in prose has been applied: the text in front of it was
\* dropped and the filesystem has changed
C20_Witness ==
    /\ diffPc = "done"
    /\ ~NoDiffContent(diffContent)
    /\ GivenAlone.text # diffContent.text
    /\ Len(parsedDiff) > 0
    /\ diffResult.success
    /\ diffResult.errors = <<>>
    /\ fs # fs0


(***************************************************************************)
(* Reading a parsed text by its lines, without the scanner: fence lines    *)
(* open and close fences in turn, so the line at the loop's index closes a *)
(* fence when it is a fence line and the fence lines up to it are even in  *)
(* number; the fence it closes was opened by the fence line before it.     *)
(***************************************************************************)
SetMax(S) == CHOOSE x \in S : \A y \in S : y <= x
FenceLinesUpTo(i) == { j \in 1..i : StartsWith(scanLines[j], FENCE) }
Closing ==
    /\ parsePc = "scan"
    /\ scanPos < Len(scanLines)
    /\ StartsWith(scanLines[scanPos + 1], FENCE)
    /\ Cardinality(FenceLinesUpTo(scanPos + 1)) % 2 = 0
Opener == SetMax(FenceLinesUpTo(scanPos))
InnerLines == SubSeq(scanLines, Opener + 1, scanPos)
NonBlankBefore(i) == { j \in 1..(i - 1) : Trim(scanLines[j]) # <<>> }
LooksLikePath(l) == \E k \in 1..Len(l) : l[k] \in {".", "/", "\\"}

\* The nearest non-blank line before the opener, trimmed, when it looks
\* like a path; the first line inside the fence, trimmed, when it is not
\* blank and does not begin with the search marker
PriorLine == Trim(scanLines[SetMax(NonBlankBefore(Opener))])
ExternalPath == NonBlankBefore(Opener) # {} /\ LooksLikePath(PriorLine)
FirstInner == IF InnerLines = <<>> THEN <<>> ELSE Trim(InnerLines[1])
InternalPath == FirstInner # <<>> /\ ~StartsWith(FirstInner, SEARCH_MARKER)

(***************************************************************************)
(* C21: a fence with no path of its own, neither above its opener nor in   *)
(* its first line, yields no block, whatever the fences before it had.     *)
(***************************************************************************)
C21_NoPathNoBlock ==
    [][ (Closing /\ ~ExternalPath /\ ~InternalPath) => scan'.blocks = scan.blocks ]_allVars


(***************************************************************************)
(* C22: the blocks parseSearchReplaceBlocks returns carry the ordinals     *)
(* 1, 2, ..., n in order, whatever other fences stand between them.        *)
(***************************************************************************)
C22_OrdinalsWithoutGaps ==
    parsePc = "done" =>
       \A k \in 1..Len(scan.blocks) : scan.blocks[k].lineNumber = k


(***************************************************************************)
(* C23: replacement is literal.  When an edit finds its search text in a   *)
(* writable file, the file afterwards holds replaceContent, character for  *)
(* character, at the position of the leftmost match, and has the length    *)
(* that exchanging the one text for the other gives.                       *)
(***************************************************************************)
MatchAt == IndexOf(fs[Target(Cur)].content, Cur.searchContent)

C23_LiteralReplacement ==
    [][ (/\ Stepping
         /\ IsValidBlock(Cur)
         /\ ~Cur.isNewFile
         /\ IsWritableFile(fs, Target(Cur))
         /\ Includes(fs[Target(Cur)].content, Cur.searchContent))
        => /\ IsFile(fs', Target(Cur))
           /\ Len(fs'[Target(Cur)].content) =
                 Len(fs[Target(Cur)].content) - Len(Cur.searchContent)
                 + Len(Cur.replaceContent)
           /\ SubSeq(fs'[Target(Cur)].content, MatchAt,
                     MatchAt + Len(Cur.replaceContent) - 1) = Cur.replaceContent ]_vars


(***************************************************************************)
(* C24: marker extraction.  A fence that has a path yields a block exactly *)
(* when its body (the lines inside it, without the path line if the path   *)
(* is inside) holds a search marker, later a divider, later an end marker, *)
(* each as the trimmed text of a line.  The block's searchContent is then  *)
(* the lines between the first search marker and the first divider after   *)
(* it, its replaceContent the lines between that divider and the first end *)
(* marker after it, joined by newlines with blank lines kept; so no line   *)
(* of searchContent is a divider and no line of replaceContent an end      *)
(* marker.                                                                 *)
(***************************************************************************)
Body == IF InternalPath THEN Tail(InnerLines) ELSE InnerLines
MarkerLines(b, marker, after) == { i \in (after + 1)..Len(b) : Trim(b[i]) = marker }
SetMin(S) == CHOOSE x \in S : \A y \in S : x <= y
HasMarkersInOrder(b) ==
    \E i, j, k \in 1..Len(b) :
       /\ i < j /\ j < k
       /\ Trim(b[i]) = SEARCH_MARKER
       /\ Trim(b[j]) = DIVIDER_MARKER
       /\ Trim(b[k]) = REPLACE_MARKER
SearchAt(b) == SetMin(MarkerLines(b, SEARCH_MARKER, 0))
DividerAt(b) == SetMin(MarkerLines(b, DIVIDER_MARKER, SearchAt(b)))
EndAt(b) == SetMin(MarkerLines(b, REPLACE_MARKER, DividerAt(b)))
NoLineIs(text, marker) ==
    \A k \in 1..Len(Split(text, "\n")) : Trim(Split(text, "\n")[k]) # marker
LastBlock(st) == st.blocks[Len(st.blocks)]

C24_MarkerExtraction ==
    [][ (Closing /\ (ExternalPath \/ InternalPath)) =>
          IF HasMarkersInOrder(Body)
          THEN /\ Len(scan'.blocks) = Len(scan.blocks) + 1
               /\ SubSeq(scan'.blocks, 1, Len(scan.blocks)) = scan.blocks
               /\ LastBlock(scan').searchContent =
                     Join(SubSeq(Body, SearchAt(Body) + 1, DividerAt(Body) - 1), "\n")
               /\ LastBlock(scan').replaceContent =
                     Join(SubSeq(Body, DividerAt(Body) + 1, EndAt(Body) - 1), "\n")
               /\ NoLineIs(LastBlock(scan').searchContent, DIVIDER_MARKER)
               /\ NoLineIs(LastBlock(scan').replaceContent, REPLACE_MARKER)
          ELSE scan'.blocks = scan.blocks ]_allVars

\* C24 witness: of two fences with paths, the one without an end marker gave
\* no block and the other gave a block whose replaceContent keeps a second
\* divider line
C24_Witness ==
    /\ parsePc = "done"
    /\ Cardinality(FenceLinesUpTo(Len(scanLines))) = 4
    /\ Len(scan.blocks) = 1
    /\ scan.blocks[1].searchContent = T_X
    /\ scan.blocks[1].replaceContent = T_Y \o <<"\n">> \o DIVIDER_MARKER
    /\ \E i \in 1..Len(scanLines) : scanLines[i] = SEARCH_MARKER


(***************************************************************************)
(* C25: path selection when a fence closes.  The filePath of the block a   *)
(* fence yields is the first line inside the fence, trimmed, when that     *)
(* line is not blank and does not begin with the search marker, whatever   *)
(* stands above the opener; otherwise it is the nearest non-blank line     *)
(* above the opener, which then contains ".", "/" or "\".                  *)
(***************************************************************************)
YieldsBlock == Closing /\ Len(scan'.blocks) = Len(scan.blocks) + 1

C25_PathSelection ==
    [][ YieldsBlock =>
          IF InternalPath
          THEN LastBlock(scan').filePath = FirstInner
          ELSE /\ ExternalPath
               /\ LastBlock(scan').filePath = PriorLine ]_allVars

\* The part of C25 about fences that have a path of their own
C25_HoldsWithOwnPath ==
    [][ (YieldsBlock /\ (InternalPath \/ ExternalPath)) =>
          LastBlock(scan').filePath = (IF InternalPath THEN FirstInner ELSE PriorLine)
      ]_allVars


(***************************************************************************)
(* C26: wrapper narrowing.  When the text holds a start tag with an end    *)
(* tag somewhere behind it, the lines the loop runs over are those of the  *)
(* text between the first start tag and the first end tag behind it, and   *)
(* nothing else is ever scanned; without such a pair they are the lines of *)
(* the whole text.                                                         *)
(***************************************************************************)
TagsAt(text, tag, from) == { i \in from..Len(text) : OccursAt(text, tag, i) }
FirstOpen(text) == SetMin(TagsAt(text, XML_OPEN, 1))
ClosesBehind(text) == TagsAt(text, XML_CLOSE, FirstOpen(text) + Len(XML_OPEN))
IsWrapped(text) == TagsAt(text, XML_OPEN, 1) # {} /\ ClosesBehind(text) # {}
WrappedRegion(text) ==
    SubSeq(text, FirstOpen(text) + Len(XML_OPEN), SetMin(ClosesBehind(text)) - 1)

C26_WrapperNarrowing ==
    [][ /\ (parsePc = "start" /\ parseContent.isString /\ parseContent.text # <<>>)
           => scanLines' = Split(IF IsWrapped(parseContent.text)
                                 THEN WrappedRegion(parseContent.text)
                                 ELSE parseContent.text, "\n")
        /\ parsePc = "scan" => scanLines' = scanLines ]_allVars

\* C26 witness: a text with a fence in front of the start tag, one between
\* the tags and one behind the end tag gave the block of the middle fence
\* alone
C26_Witness ==
    /\ parsePc = "done"
    /\ IsWrapped(parseContent.text)
    /\ StartsWith(parseContent.text, P_A)
    /\ Len(Split(parseContent.text, "\n")) >= Len(scanLines) + 2 * Len(S_OUT)
    /\ Len(scan.blocks) = 1
    /\ scan.blocks[1].filePath = P_NEW


(***************************************************************************)
(* C27: a block that violates a rule of the validator (a bad path, a blank *)
(* language tag, a blank search text on a block that is no new file) is    *)
(* skipped.  Its step changes nothing in the filesystem, adds exactly one  *)
(* error, labeled with the block's ordinal and path and naming the rules,  *)
(* and counts neither a block nor a file.                                  *)
(***************************************************************************)
C27_InvalidBlockSkipped ==
    [][ (Stepping /\ ViolatedRules(Cur) # {}) =>
          /\ fs' = fs
          /\ AddedError
          /\ processedFiles' = processedFiles
          /\ Head(LastError(result').text) = "Invalid format"
          /\ { Tail(LastError(result').text)[k] : k \in 1..Cardinality(ViolatedRules(Cur)) }
                = ViolatedRules(Cur) ]_vars

\* C27 witness: a block without a language tag, whose search text is in the
\* writable file it names, was skipped; the next block was applied
C27_Witness ==
    /\ pc = "done"
    /\ Len(blocks) = 2
    /\ blocks[1].language = <<>>
    /\ ~blocks[1].isNewFile
    /\ IsWritableFile(fs0, Target(blocks[1]))
    /\ Includes(fs0[Target(blocks[1])].content, blocks[1].searchContent)
    /\ applied = <<FALSE, TRUE>>
    /\ result.blocksProcessed = 1
    /\ Len(result.errors) = 1


(***************************************************************************)
(* C28: a failed edit of an existing file changes nothing.  When the file  *)
(* a valid edit block names does not exist, the block fails with "The      *)
(* specified file does not exist." and neither the file nor a directory is *)
(* made; when the search text is not in the file, the block fails and the  *)
(* file, like everything else, is what it was; and whatever makes an edit  *)
(* block fail, its step leaves the filesystem as it found it.              *)
(***************************************************************************)
EditStep == Stepping /\ ViolatedRules(Cur) = {} /\ ~Cur.isNewFile

C28_FailedEditChangesNothing ==
    [][ /\ (EditStep /\ ~existsSync(fs, Target(Cur)))
           => /\ AddedError
              /\ LastError(result').text = <<"The specified file does not exist.">>
              /\ DOMAIN fs' = DOMAIN fs
              /\ fs' = fs
        /\ (EditStep /\ IsFile(fs, Target(Cur))
              /\ ~Includes(fs[Target(Cur)].content, Cur.searchContent))
           => /\ AddedError
              /\ fs'[Target(Cur)].content = fs[Target(Cur)].content
              /\ fs' = fs
        /\ (EditStep /\ AddedError) => fs' = fs ]_vars

\* C28 witness: an edit of a file that does not exist, in a directory that
\* does not exist, and an edit whose search text is not in its file both
\* failed, and the filesystem is as it was
C28_Witness ==
    /\ pc = "done"
    /\ Len(blocks) = 2
    /\ \A k \in 1..2 : ViolatedRules(blocks[k]) = {} /\ ~blocks[k].isNewFile
    /\ dirname(Target(blocks[1])) \notin DOMAIN fs0
    /\ IsFile(fs0, Target(blocks[2]))
    /\ ~Includes(fs0[Target(blocks[2])].content, blocks[2].searchContent)
    /\ applied = <<FALSE, FALSE>>
    /\ fs = fs0


(***************************************************************************)
(* C29: in applyDiff an entry sees what the entries before it have done.   *)
(* Each entry is resolved as it would be against the filesystem that the   *)
(* error-free operations of the earlier entries leave: a second Changed    *)
(* entry for a file builds on the first one's content, an Added entry for  *)
(* a path an earlier entry creates fails as already existing.              *)
(***************************************************************************)
RECURSIVE AfterOperations(_, _)
AfterOperations(f, ops) ==
    IF ops = <<>> THEN f
    ELSE AfterOperations(IF Head(ops).error = "" THEN applyOperation(f, Head(ops)).fs ELSE f,
                         Tail(ops))

C29_EntriesSeeEarlierEntries ==
    [][ (diffPc = "resolve" /\ Len(operations) < Len(parsedDiff))
        => Resolved = processFile(AfterOperations(fs, operations), CurFile).op ]_allVars


(***************************************************************************)
(* C30: an I/O failure while one operation of a diff is committed is       *)
(* recovered at that operation.  The step adds one error labeled with the  *)
(* operation's path and the commit pass goes on with the next operation,   *)
(* so that applyDiff returns only when it has gone through all of them.    *)
(***************************************************************************)
CommitThrows == Committing /\ applyOperation(fs, CurOperation).threw # ""

C30_RecoveredPerOperation ==
    /\ [][ CommitThrows =>
             /\ diffPc' = "commit"
             /\ committed' = committed + 1
             /\ diffResult'.errors =
                   Append(diffResult.errors,
                          DiffError(CurOperation.path, applyOperation(fs, CurOperation).threw))
         ]_allVars
    /\ [](Returned => committed = Len(operations))


(***************************************************************************)
(* C31: applyDiff never overwrites an existing file through an Added or    *)
(* Renamed entry.  Whenever the commit pass carries out the write of a     *)
(* create or rename operation, nothing exists at the destination just      *)
(* before that step, also when several entries name one destination.       *)
(***************************************************************************)
WritesDestination ==
    /\ Committing
    /\ CurOperation.error = ""
    /\ CurOperation.type \in {"create", "rename"}
    /\ (committed' = committed + 1 \/ fs' # fs)

C31_NoOverwrite ==
    [][ WritesDestination => DiffTarget(CurOperation.path) \notin DOMAIN fs ]_allVars


(***************************************************************************)
(* C32: a Changed entry on a file that exists.  Every line of the result   *)
(* that is no added line of a chunk is a line of the original file, and    *)
(* these lines stand in the original's order: the result with the chunks'  *)
(* added lines taken out is a subsequence of the original's lines, also    *)
(* when the context lines of a chunk are not the lines the file has.       *)
(***************************************************************************)
IsAddedLine(c) == c.type = "AddedLine"
RECURSIVE AddedLinesOf(_)
AddedLinesOf(chunks) ==
    IF chunks = <<>> THEN <<>>
    ELSE Contents(SelectSeq(Head(chunks).changes, IsAddedLine)) \o AddedLinesOf(Tail(chunks))

\* res is orig with lines left out and lines of added, in their order, put in
RECURSIVE CopiedAndAdded(_, _, _)
CopiedAndAdded(res, added, orig) ==
    \/ res = <<>>
    \/ /\ res # <<>>
       /\ \/ /\ added # <<>>
             /\ Head(res) = Head(added)
             /\ CopiedAndAdded(Tail(res), Tail(added), orig)
          \/ \E k \in 1..Len(orig) :
                /\ orig[k] = Head(res)
                /\ CopiedAndAdded(Tail(res), added, SubSeq(orig, k + 1, Len(orig)))

ChangedStep ==
    /\ Resolving("ChangedFile")
    /\ Len(CurFile.chunks) > 0
    /\ IsFile(fs, DiffTarget(CurFile.path))

CopiesOriginalWhen(applies(_, _)) ==
    (ChangedStep /\ applies(FileLines(fs[DiffTarget(CurFile.path)].content), CurFile.chunks))
    => /\ Resolved.error = ""
       /\ CopiedAndAdded(FileLines(Resolved.content), AddedLinesOf(CurFile.chunks),
                         FileLines(fs[DiffTarget(CurFile.path)].content))

AnyContext(orig, chunks) == TRUE
ContextOfFile(orig, chunks) == Consistent(orig, chunks, 0)

C32_UnchangedLinesFromOriginal == [][CopiesOriginalWhen(AnyContext)]_allVars

\* The law holds of every entry whose context and removed lines are the
\* lines of the file
C32_HoldsWithContextOfFile == [][CopiesOriginalWhen(ContextOfFile)]_allVars


(***************************************************************************)
(* C33: applyDiff stays inside its workspace.  At every point of a call,   *)
(* the files outside the workspace root are the files that were there when *)
(* the call began, with the content they had: none is created, written,    *)
(* renamed or deleted, whatever paths the entries of the diff name.        *)
(***************************************************************************)
OutsideFiles(f) ==
    { p \in DOMAIN f : f[p].kind = "file" /\ ~Inside(workspacePath, p) }

C33_StaysInWorkspace ==
    /\ OutsideFiles(fs) = OutsideFiles(fs0)
    /\ \A p \in OutsideFiles(fs0) : fs[p] = fs0[p]


(***************************************************************************)
(* C34: the result of applyDiff tells what was done.  When the call has    *)
(* returned, filesProcessed is the number of operations that the commit    *)
(* pass has carried out, and a result with success false means that it     *)
(* has carried out none.                                                   *)
(***************************************************************************)
CarriedOut == { k \in 1..committed : operations[k].error = "" }

C34_CountsCommitted ==
    diffPc = "done" =>
        /\ diffResult.filesProcessed = Cardinality(CarriedOut)
        /\ ~diffResult.success => CarriedOut = {}


(***************************************************************************)
(* C35: fences open and close in turn.  While the lines are scanned the    *)
(* scanner is inside a fence exactly when the number of lines read so far  *)
(* that begin with three backticks is odd; the list of blocks changes only *)
(* on a line that closes a fence, so a fence that is opened and never      *)
(* closed yields no block; and no line of a block's search or replace text *)
(* begins with three backticks.                                            *)
(***************************************************************************)
NoFenceLineIn(text) ==
    \A k \in 1..Len(Split(text, "\n")) : ~StartsWith(Split(text, "\n")[k], FENCE)

FenceParity ==
    parsePc = "scan" => (scan.inFence <=> Cardinality(FenceLinesUpTo(scanPos)) % 2 = 1)

BlocksWithoutFenceLines ==
    \A k \in 1..Len(scan.blocks) :
        /\ NoFenceLineIn(scan.blocks[k].searchContent)
        /\ NoFenceLineIn(scan.blocks[k].replaceContent)

C35_FencesAlternate ==
    /\ [](FenceParity /\ BlocksWithoutFenceLines)
    /\ [][ scan'.blocks # scan.blocks
           => Closing /\ Len(scan'.blocks) = Len(scan.blocks) + 1 ]_allVars

\* A text has been read to its end whose last fence is open, with a path
\* above the opener and the three markers behind it, and the one block
\* returned is that of the closed fence before
C35_Witness ==
    /\ parsePc = "done"
    /\ scanPos = Len(scanLines)
    /\ Cardinality(FenceLinesUpTo(scanPos)) = 3
    /\ LET last == SetMax(FenceLinesUpTo(scanPos))
       IN  /\ last > 1
           /\ scanLines[last - 1] = P_A
           /\ HasMarkersInOrder(SubSeq(scanLines, last + 1, scanPos))
    /\ Len(scan.blocks) = 1


(***************************************************************************)
(* C36: inside applySearchReplaceBlocks the validation error "Search       *)
(* content is empty for existing file modification" cannot occur, and a    *)
(* block whose search content is blank is never handled as an edit of an   *)
(* existing file: its step changes no file that exists and reports none of *)
(* the errors of find-and-replace.                                         *)
(***************************************************************************)
EmptySearchRule == "Search content is empty for existing file modification"
EditErrors ==
    { <<"The specified file does not exist.">>,
      <<"The content in the SEARCH block did not exactly match any part of the file.">> }

Mentions(entry, text) == \E k \in 1..Len(entry.text) : entry.text[k] = text

C36_EmptySearchRuleUnreachable ==
    /\ [](\A k \in 1..Len(result.errors) : ~Mentions(result.errors[k], EmptySearchRule))
    /\ [][ (Stepping /\ IsBlank(Cur.searchContent)) =>
             /\ \A p \in DOMAIN fs : p \in DOMAIN fs' /\ fs'[p] = fs[p]
             /\ AddedError => LastError(result').text \notin EditErrors ]_vars

\* A finished call with a valid block of blank search content that failed on
\* an existing file, which it left alone, and with another such block that
\* created its file
C36_Witness ==
    /\ pc = "done"
    /\ \E k \in 1..Len(blocks) :
          /\ IsValidBlock(blocks[k])
          /\ IsBlank(blocks[k].searchContent)
          /\ IsFile(fs0, Target(blocks[k]))
          /\ ~applied[k]
          /\ fs[Target(blocks[k])] = fs0[Target(blocks[k])]
    /\ \E k \in 1..Len(blocks) :
          /\ IsBlank(blocks[k].searchContent)
          /\ blocks[k].searchContent # <<>>
          /\ Target(blocks[k]) \notin DOMAIN fs0
          /\ applied[k]

====
